---- MODULE Spec2Model ----
(***************************************************************************)
(* DocuWeaver: project calibration state (drawings/api_views.py,           *)
(* drawings/models.py, drawings/views.py) and the cadastre projection      *)
(* (drawings/services/cadastre_service.py).                                *)
(*                                                                         *)
(* Numbers.  A Python float is modelled as an exact rational extended with *)
(* the three non-finite values: [k, n, d] with k one of "fin", "nan",      *)
(* "pinf", "ninf"; a finite value is n/d in lowest terms with d > 0.       *)
(* Rounding and the finite range of a double are not modelled; the         *)
(* arithmetic on non-finite values follows IEEE 754 (inf * 0 = nan,        *)
(* inf - inf = nan, nan compares false with everything).                   *)
(***************************************************************************)
EXTENDS Integers, Sequences, FiniteSets, TLC

VARIABLES
    project,    \* the Project row of the database (exists = FALSE: no row)
    assets,     \* the Asset rows of the project: pk -> row
    batches,    \* the ImportBatch rows of the project: pk -> row
    groups,     \* the LayerGroup rows of the project: pk -> row
    logs,       \* the AdjustmentLog rows, oldest first
    assetTypes, \* the names of the AssetType rows
    last,       \* the request being answered: operation, input, status, state before
    geo,        \* one call of the cadastre projection: inputs and result
    parse,      \* one call of _parse_finite_float: inputs and result
    threads,    \* the calibrate_project requests being served at once
    links,      \* the Link rows of the project: pk -> row
    trip,       \* one export of the project and the import of the exported file
    parent_group, \* the LayerGroup rows join_groups works on: pk -> type and parent
    sheets,     \* the Sheet rows
    storage,    \* the PDF files present in storage
    deletes,    \* each Sheet.delete in progress
    naming      \* the names of the Project rows and the name search of one import

rows == <<assets, batches, groups, logs, assetTypes>>
\* what the sequential handlers leave alone
calls == <<geo, parse, threads, trip, parent_group, sheets, storage, deletes, naming>>
vars == <<project, assets, batches, groups, logs, assetTypes, last, geo, parse, threads,
          links, trip, parent_group, sheets, storage, deletes, naming>>

-----------------------------------------------------------------------------
(* Floats *)

RECURSIVE GCD(_, _)
GCD(a, b) == IF b = 0 THEN a ELSE GCD(b, a % b)

Abs(i) == IF i < 0 THEN -i ELSE i

\* n/d (d # 0) in lowest terms with a positive denominator
Fin(n, d) ==
    LET g == GCD(Abs(n), Abs(d))
        s == IF d < 0 THEN -1 ELSE 1
    IN  [k |-> "fin", n |-> (s * n) \div g, d |-> (s * d) \div g]

Int2F(i) == [k |-> "fin", n |-> i, d |-> 1]
NaN  == [k |-> "nan",  n |-> 0, d |-> 1]
PInf == [k |-> "pinf", n |-> 0, d |-> 1]
NInf == [k |-> "ninf", n |-> 0, d |-> 1]

\* math.isfinite
IsFinite(x) == x.k = "fin"
IsNaN(x) == x.k = "nan"

\* -1, 0, 1; of a NaN: 0 (callers test IsNaN first)
Sgn(x) ==
    CASE x.k = "pinf" -> 1
      [] x.k = "ninf" -> -1
      [] x.k = "nan"  -> 0
      [] OTHER -> IF x.n > 0 THEN 1 ELSE IF x.n < 0 THEN -1 ELSE 0

FNeg(x) ==
    CASE x.k = "pinf" -> NInf
      [] x.k = "ninf" -> PInf
      [] x.k = "nan"  -> NaN
      [] OTHER -> Fin(-x.n, x.d)

FAdd(a, b) ==
    IF IsNaN(a) \/ IsNaN(b) THEN NaN
    ELSE IF IsFinite(a) /\ IsFinite(b) THEN Fin(a.n * b.d + b.n * a.d, a.d * b.d)
    ELSE IF IsFinite(a) THEN b
    ELSE IF IsFinite(b) THEN a
    ELSE IF a.k = b.k THEN a ELSE NaN

FSub(a, b) == FAdd(a, FNeg(b))

FMul(a, b) ==
    IF IsNaN(a) \/ IsNaN(b) THEN NaN
    ELSE IF IsFinite(a) /\ IsFinite(b) THEN Fin(a.n * b.n, a.d * b.d)
    ELSE IF Sgn(a) * Sgn(b) = 0 THEN NaN
    ELSE IF Sgn(a) * Sgn(b) > 0 THEN PInf ELSE NInf

\* a / b for finite a and finite b # 0 (the only division the code makes)
FDiv(a, b) == Fin(a.n * b.d, a.d * b.n)

\* x <= 0 and x > 0 as Python compares floats: false for a NaN
FLe0(x) == ~IsNaN(x) /\ Sgn(x) <= 0
FGt0(x) == ~IsNaN(x) /\ Sgn(x) > 0

-----------------------------------------------------------------------------
(* Request values: what request.data.get(key) returns.                     *)
(* t = "none": key absent or JSON null; "num": a JSON number; "str": a     *)
(* string (form data, or a JSON string); "other": a list or an object.     *)

None == [t |-> "none", v |-> Int2F(0), s |-> ""]
Num(i) == [t |-> "num", v |-> Int2F(i), s |-> ""]
Str(s) == [t |-> "str", v |-> Int2F(0), s |-> s]
Other == [t |-> "other", v |-> Int2F(0), s |-> ""]

\* The strings float() accepts, with the value it returns for each
FloatStrings == {"12", "0", "-3", "nan", "inf", "-inf"}
StrToFloat(s) ==
    CASE s = "12"   -> Int2F(12)
      [] s = "0"    -> Int2F(0)
      [] s = "-3"   -> Int2F(-3)
      [] s = "nan"  -> NaN
      [] s = "inf"  -> PInf
      [] s = "-inf" -> NInf

\* Two further JSON values: an integer beyond the range of a float (t =
\* "bigint", such as 1 followed by 400 zeros) and true (t = "bool")
Huge == [t |-> "bigint", v |-> Int2F(0), s |-> ""]
Bool(b) == [t |-> "bool", v |-> Int2F(IF b THEN 1 ELSE 0), s |-> ""]
TrueValue == Bool(TRUE)

\* float(value): ok = FALSE when it raises, exc the exception raised
PyFloat(raw) ==
    CASE raw.t \in {"num", "bool"} -> [ok |-> TRUE, v |-> raw.v, exc |-> ""]
      [] raw.t = "str" /\ raw.s \in FloatStrings ->
            [ok |-> TRUE, v |-> StrToFloat(raw.s), exc |-> ""]
      [] raw.t = "str" -> [ok |-> FALSE, v |-> Int2F(0), exc |-> "ValueError"]
      [] raw.t = "bigint" -> [ok |-> FALSE, v |-> Int2F(0), exc |-> "OverflowError"]
      [] OTHER -> [ok |-> FALSE, v |-> Int2F(0), exc |-> "TypeError"]

\* What a call leaves: the exception raised ("" when it returned), the field
\* its message names ("" when it names none) and the value returned
Returned(v) == [raised |-> "", field |-> "", v |-> v]
Raised(exc, field) == [raised |-> exc, field |-> field, v |-> Int2F(0)]

\* _parse_finite_float(value, name): the TypeError and the ValueError of
\* float() are raised again as a ValueError that names the field, any other
\* exception of float() leaves the function as it is
parse_finite_float(value, name) ==
    LET r == PyFloat(value)
    IN  IF r.exc \in {"TypeError", "ValueError"} THEN Raised("ValueError", name)
        ELSE IF ~r.ok THEN Raised(r.exc, "")
        ELSE IF ~IsFinite(r.v) THEN Raised("ValueError", name)
        ELSE Returned(r.v)

\* _parse_finite_float as its callers see it: ok = FALSE when it raises
ParseFiniteFloat(raw) ==
    LET r == parse_finite_float(raw, "")
    IN  [ok |-> r.raised = "", v |-> r.v, exc |-> r.raised]

-----------------------------------------------------------------------------
(* Text.  An asset id is a sequence of characters, so that the slice       *)
(* [:100] of calibrate_project is computed and not assumed.                *)

A1 == <<"A", "1">>
A2 == <<"A", "2">>
Ghost == <<"Z", "9">>                 \* the id of no asset the model creates
RefIdMaxLen == 100
LongId == [i \in 1..(RefIdMaxLen + 1) |-> "x"]

NoId == [t |-> "none", id |-> <<>>]
IdStr(id) == [t |-> "str", id |-> id]

\* str(value)[:100]
TruncateId(id) == IF Len(id) <= RefIdMaxLen THEN id ELSE SubSeq(id, 1, RefIdMaxLen)

-----------------------------------------------------------------------------
(* The Project row: the calibration fields of models.Project *)

COORD_UNIT_CHOICES == {"meters", "degrees", "gda94_geo", "gda94_mga"}

\* A project born at one pixel per meter and marked calibrated
DefaultProjectUnitScale ==
    [exists |-> TRUE,
     pixels_per_meter |-> Int2F(1),
     scale_calibrated |-> TRUE,
     coord_unit |-> "meters",
     origin_x |-> Int2F(0),
     origin_y |-> Int2F(0),
     canvas_rotation |-> Int2F(0),
     asset_rotation |-> Int2F(0),
     ref_asset_id |-> <<>>,
     ref_pixel_x |-> Int2F(0),
     ref_pixel_y |-> Int2F(0)]

\* Project.objects.create(name=...): the field defaults of the model
DefaultProject ==
    [exists |-> TRUE,
     pixels_per_meter |-> Int2F(100),
     scale_calibrated |-> FALSE,
     coord_unit |-> "meters",
     origin_x |-> Int2F(0),
     origin_y |-> Int2F(0),
     canvas_rotation |-> Int2F(0),
     asset_rotation |-> Int2F(0),
     ref_asset_id |-> <<>>,
     ref_pixel_x |-> Int2F(0),
     ref_pixel_y |-> Int2F(0)]

NoProject == [DefaultProject EXCEPT !.exists = FALSE]

CalibFields == {"pixels_per_meter", "scale_calibrated", "coord_unit", "origin_x",
                "origin_y", "canvas_rotation", "asset_rotation", "ref_asset_id",
                "ref_pixel_x", "ref_pixel_y"}

-----------------------------------------------------------------------------
(* The rows a project owns.  A primary key is a slot: a new row takes the  *)
(* smallest free one.  No row outlives a reference to it (foreign keys are *)
(* CASCADE or SET_NULL), so a reused key is never mistaken for an old row. *)

\* Bounds: the rows of each table
MaxAssets == 2
MaxBatches == 2
MaxGroups == 2
MaxLogs == 1

AssetPks == 1..MaxAssets
BatchPks == 1..MaxBatches
GroupPks == 1..MaxGroups

\* A nullable float column holding NULL
Null == [k |-> "null", n |-> 0, d |-> 1]

\* models.Asset; import_batch and layer_group are 0 for NULL
NoAsset ==
    [exists |-> FALSE, asset_id |-> <<>>, asset_type |-> "", import_batch |-> 0,
     layer_group |-> 0, original_x |-> Int2F(0), original_y |-> Int2F(0),
     adjusted_x |-> Null, adjusted_y |-> Null, is_adjusted |-> FALSE]

\* models.Link; import_batch and layer_group are 0 for NULL
MaxLinks == 2
LinkPks == 1..MaxLinks
NoLink == [exists |-> FALSE, link_id |-> "", import_batch |-> 0, layer_group |-> 0]

\* models.ImportBatch
NoBatch == [exists |-> FALSE, asset_count |-> 0]

\* models.LayerGroup; import_batch is 0 for NULL
NoGroup == [exists |-> FALSE, import_batch |-> 0]

\* The position read from the original column whatever is_adjusted holds
current_x_original(a) == a.original_x

\* Asset.current_x, Asset.current_y
current_x(a) == IF a.is_adjusted THEN a.adjusted_x ELSE a.original_x
current_y(a) == IF a.is_adjusted THEN a.adjusted_y ELSE a.original_y

Min(S) == CHOOSE x \in S : \A y \in S : x <= y
FreePks(table) == {k \in DOMAIN table : ~table[k].exists}
Existing(table) == {k \in DOMAIN table : table[k].exists}

\* What the handlers record of a request: the operation, its input, the
\* status of the response and the project row before the request
Last(op, status, req, pre) == [op |-> op, status |-> status, req |-> req, pre |-> pre]

-----------------------------------------------------------------------------
(* calibrate_project *)

\* The keys calibrate_project reads from request.data, in the order it reads them
CalKeys == <<"pixel_distance", "real_distance", "origin_x", "origin_y",
             "canvas_rotation", "asset_rotation", "ref_asset_id",
             "ref_pixel_x", "ref_pixel_y", "coord_unit">>

\* The values a request may carry under each key
KeyVals(k) ==
    CASE k = "pixel_distance"  -> {Num(200), Num(3), Num(0), Str("inf")}
      [] k = "real_distance"   -> {Num(2), Num(-1), Str("abc")}
      [] k = "origin_x"        -> {Num(5)}
      [] k = "origin_y"        -> {Num(7), Str("-inf")}
      [] k = "canvas_rotation" -> {Num(90)}
      [] k = "asset_rotation"  -> {Num(45), Other}
      [] k = "ref_asset_id"    -> {IdStr(LongId)}
      [] k = "ref_pixel_x"     -> {Str("12")}
      [] k = "ref_pixel_y"     -> {Str("nan")}
      [] k = "coord_unit"      -> {Str("degrees"), Str("feet")}

NoneOf(k) == IF k = "ref_asset_id" THEN NoId ELSE None

\* Bound: the number of keys one request supplies
MaxSupplied == 3

\* The value lists over the first i keys with at most b keys supplied
RECURSIVE ReqsUpTo(_, _)
ReqsUpTo(i, b) ==
    IF i = 0 THEN {<<>>}
    ELSE {Append(r, NoneOf(CalKeys[i])) : r \in ReqsUpTo(i - 1, b)}
         \cup (IF b = 0 THEN {}
               ELSE {Append(r[1], r[2]) : r \in ReqsUpTo(i - 1, b - 1) \X KeyVals(CalKeys[i])})

ReqRec(s) ==
    [pixel_distance |-> s[1], real_distance |-> s[2], origin_x |-> s[3],
     origin_y |-> s[4], canvas_rotation |-> s[5], asset_rotation |-> s[6],
     ref_asset_id |-> s[7], ref_pixel_x |-> s[8], ref_pixel_y |-> s[9],
     coord_unit |-> s[10]]

CalibRequests == {ReqRec(s) : s \in ReqsUpTo(Len(CalKeys), MaxSupplied)}
EmptyReq == ReqRec([i \in 1..Len(CalKeys) |-> NoneOf(CalKeys[i])])

\* request.data.get(key) is not None
Supplied(req, k) == req[k].t # "none"

\* The handler runs on the instance it loaded; each step yields the instance
\* as mutated so far and whether the handler has returned 400.
Go(p) == [status |-> 200, p |-> p]
Bad(p) == [status |-> 400, p |-> p]
\* "except ValueError" catches the ValueError only: any other exception
\* leaves the handler and the request is answered 500
Failed(p, r) == [status |-> IF r.exc = "ValueError" THEN 400 ELSE 500, p |-> p]

\* A rounded scale: the quotient truncated to a whole number
CalScaleValueRounded(pd, rd) == Int2F((pd.n * rd.d) \div (pd.d * rd.n))

\* line 370: pixel_distance / real_distance
CalScaleValue(pd, rd) == FDiv(pd, rd)

CalScale(p, req) ==
    IF Supplied(req, "pixel_distance") /\ Supplied(req, "real_distance")
    THEN LET pd == ParseFiniteFloat(req.pixel_distance)
             rd == ParseFiniteFloat(req.real_distance)
         IN  IF ~pd.ok THEN Failed(p, pd)
             ELSE IF ~rd.ok THEN Failed(p, rd)
             ELSE IF FLe0(rd.v) THEN Bad(p)
             ELSE IF FLe0(pd.v) THEN Bad(p)
             ELSE Go([p EXCEPT !.pixels_per_meter = CalScaleValue(pd.v, rd.v),
                               !.scale_calibrated = TRUE])
    ELSE Go(p)

\* A field defaulted rather than left alone when its key is absent
CalFloatDefaulting(p, req, k, field) ==
    LET r == ParseFiniteFloat(req[k])
    IN  IF ~Supplied(req, k) THEN Go([p EXCEPT ![field] = Int2F(0)])
        ELSE IF r.ok THEN Go([p EXCEPT ![field] = r.v]) ELSE Bad(p)

\* One "if key is not None: project.field = _parse_finite_float(key)" statement
CalFloat(p, req, k, field) ==
    IF Supplied(req, k)
    THEN LET r == ParseFiniteFloat(req[k])
         IN  IF r.ok THEN Go([p EXCEPT ![field] = r.v]) ELSE Failed(p, r)
    ELSE Go(p)

\* lines 403-405
CalRefAsset(p, req) ==
    IF Supplied(req, "ref_asset_id")
    THEN Go([p EXCEPT !.ref_asset_id = TruncateId(req.ref_asset_id.id)])
    ELSE Go(p)

\* The unit stored whatever it is
CalCoordUnitUnchecked(p, req) ==
    IF Supplied(req, "coord_unit")
    THEN Go([p EXCEPT !.coord_unit = req.coord_unit.s])
    ELSE Go(p)

\* lines 417-424
CalCoordUnit(p, req) ==
    IF Supplied(req, "coord_unit")
    THEN IF req.coord_unit.t = "str" /\ req.coord_unit.s \in COORD_UNIT_CHOICES
         THEN Go([p EXCEPT !.coord_unit = req.coord_unit.s])
         ELSE Bad(p)
    ELSE Go(p)

\* The statements of the handler in the order of the code
CalStep(i, p, req) ==
    CASE i = 1 -> CalScale(p, req)
      [] i = 2 -> CalFloat(p, req, "origin_x", "origin_x")
      [] i = 3 -> CalFloat(p, req, "origin_y", "origin_y")
      [] i = 4 -> CalFloat(p, req, "canvas_rotation", "canvas_rotation")
      [] i = 5 -> CalFloat(p, req, "asset_rotation", "asset_rotation")
      [] i = 6 -> CalRefAsset(p, req)
      [] i = 7 -> CalFloat(p, req, "ref_pixel_x", "ref_pixel_x")
      [] i = 8 -> CalFloat(p, req, "ref_pixel_y", "ref_pixel_y")
      [] i = 9 -> CalCoordUnit(p, req)

\* Statement i and those after it, unless a statement has returned 400
RECURSIVE CalRun(_, _, _)
CalRun(i, r, req) ==
    IF i > 9 \/ r.status # 200 THEN r
    ELSE CalRun(i + 1, CalStep(i, r.p, req), req)

\* lines 352-424: the handler up to project.save()
RunCalibrate(p, req) == CalRun(1, Go(p), req)

\* The instance saved whatever the outcome
CalibratePersistAlways(stored, r) == r.p

\* The row after the request: project.save() is reached only on the 200 path
CalibratePersist(stored, r) == IF r.status = 200 THEN r.p ELSE stored

Idle == Last("idle", 0, EmptyReq, NoProject)

calibrate_project(req) ==
    /\ last.op = "idle"
    /\ project.exists
    /\ LET r == RunCalibrate(project, req)
       IN  /\ project' = CalibratePersist(project, r)
           /\ last' = Last("calibrate", r.status, req, project)
    /\ UNCHANGED <<rows, links, calls>>

-----------------------------------------------------------------------------
(* ProjectDetail: PUT / PATCH through ProjectSerializer, and DELETE *)

\* A patch is a record of the fields it supplies.  ProjectSerializer is a
\* ModelSerializer that declares no validator of its own: a float field takes
\* whatever float() accepts, coord_unit must be one of the model's choices and
\* ref_asset_id is refused (not cut) beyond max_length.
PatchFloatFields == {"pixels_per_meter", "origin_x", "origin_y", "canvas_rotation",
                     "asset_rotation", "ref_pixel_x", "ref_pixel_y"}

PatchFieldOk(f, raw) ==
    CASE f \in PatchFloatFields -> PyFloat(raw).ok
      [] f = "coord_unit" -> raw.t = "str" /\ raw.s \in COORD_UNIT_CHOICES
      [] f = "ref_asset_id" -> raw.t = "str" /\ Len(raw.id) <= RefIdMaxLen

PatchFieldValue(f, raw) ==
    CASE f \in PatchFloatFields -> PyFloat(raw).v
      [] f = "coord_unit" -> raw.s
      [] f = "ref_asset_id" -> raw.id

PatchValid(patch) == \A f \in DOMAIN patch : PatchFieldOk(f, patch[f])

ApplyPatch(p, patch) ==
    [f \in DOMAIN p |-> IF f \in DOMAIN patch THEN PatchFieldValue(f, patch[f]) ELSE p[f]]

update_project(patch) ==
    /\ last.op = "idle"
    /\ project.exists
    /\ project' = IF PatchValid(patch) THEN ApplyPatch(project, patch) ELSE project
    /\ last' = Last("update_project", IF PatchValid(patch) THEN 200 ELSE 400, EmptyReq, project)
    /\ UNCHANGED <<rows, links, calls>>

\* DELETE: the project's rows go with it (on_delete = CASCADE); asset types stay
delete_project ==
    /\ last.op = "idle"
    /\ project.exists
    /\ project' = NoProject
    /\ assets' = [a \in AssetPks |-> NoAsset]
    /\ batches' = [b \in BatchPks |-> NoBatch]
    /\ groups' = [g \in GroupPks |-> NoGroup]
    /\ logs' = <<>>
    /\ links' = [l \in LinkPks |-> NoLink]
    /\ last' = Last("delete_project", 204, EmptyReq, project)
    /\ UNCHANGED <<assetTypes, calls>>

-----------------------------------------------------------------------------
(* Assets: AssetListCreate, AssetDetail, adjust_asset *)

AssetIds == {A1, A2}

HasAssetId(tbl, id) == \E k \in DOMAIN tbl : tbl[k].exists /\ tbl[k].asset_id = id

\* The logs of the assets that still exist (AdjustmentLog.asset is CASCADE)
RECURSIVE LogsOf(_, _)
LogsOf(ls, tbl) ==
    IF ls = <<>> THEN <<>>
    ELSE IF tbl[Head(ls).asset].exists THEN <<Head(ls)>> \o LogsOf(Tail(ls), tbl)
    ELSE LogsOf(Tail(ls), tbl)

\* POST of an asset outside any import; the serializer refuses a duplicate of
\* (project, asset_id)
create_asset(id, type) ==
    /\ last.op = "idle"
    /\ project.exists
    /\ type \in assetTypes
    /\ FreePks(assets) # {}
    /\ IF HasAssetId(assets, id)
       THEN /\ UNCHANGED assets
            /\ last' = Last("create_asset", 400, EmptyReq, project)
       ELSE /\ assets' = [assets EXCEPT ![Min(FreePks(assets))] =
                            [NoAsset EXCEPT !.exists = TRUE, !.asset_id = id,
                                            !.asset_type = type,
                                            !.original_x = Int2F(12)]]
            /\ last' = Last("create_asset", 201, EmptyReq, project)
    /\ UNCHANGED <<project, batches, groups, logs, assetTypes, links, calls>>

delete_asset(pk) ==
    /\ last.op = "idle"
    /\ assets[pk].exists
    /\ assets' = [assets EXCEPT ![pk] = NoAsset]
    /\ logs' = LogsOf(logs, assets')
    /\ last' = Last("delete_asset", 204, EmptyReq, project)
    /\ UNCHANGED <<project, batches, groups, assetTypes, links, calls>>

\* AdjustmentLog.save: the deltas are computed from the end points
\* (delta_distance, a square root, is left out of the row)
AdjustmentLog(pk, fx, fy, tx, ty) ==
    [asset |-> pk, from_x |-> fx, from_y |-> fy, to_x |-> tx, to_y |-> ty,
     delta_x |-> FSub(tx, fx), delta_y |-> FSub(ty, fy)]

\* What is kept of one adjust_asset request: the asset, its row and the
\* number of logs before the request
AdjustCall(pk, x, y) == [pk |-> pk, x |-> x, y |-> y, before |-> assets[pk], logs |-> Len(logs)]

\* adjust_asset: 400 without both coordinates or with one that is no finite
\* number; 500 when the position to log is NULL (from_x is NOT NULL)
adjust_asset(pk, rx, ry) ==
    /\ last.op = "idle"
    /\ assets[pk].exists
    /\ LET x == ParseFiniteFloat(rx)
           y == ParseFiniteFloat(ry)
           a == assets[pk]
           status == IF rx.t = "none" \/ ry.t = "none" THEN 400
                     ELSE IF ~x.ok \/ ~y.ok THEN 400
                     ELSE IF current_x(a) = Null \/ current_y(a) = Null THEN 500
                     ELSE 200
       IN  /\ last' = Last("adjust_asset", status, AdjustCall(pk, rx, ry), project)
           /\ IF status = 200
              THEN /\ logs' = Append(logs, AdjustmentLog(pk, current_x(a), current_y(a), x.v, y.v))
                   /\ assets' = [assets EXCEPT ![pk].adjusted_x = x.v,
                                               ![pk].adjusted_y = y.v,
                                               ![pk].is_adjusted = TRUE]
              ELSE UNCHANGED <<assets, logs>>
    /\ UNCHANGED <<project, batches, groups, assetTypes, links, calls>>

-----------------------------------------------------------------------------
(* import_csv and import_assets_from_csv *)

\* A CSV file: the header's column names and the data rows; a row gives a
\* value to each of the columns the model's files use.
DEFAULT_MAPPING ==
    [asset_id |-> "asset_id", asset_type |-> "asset_type", x |-> "x", y |-> "y",
     name |-> "name"]

\* row.get(col, ''): '' for a column the header does not have
RowGet(file, row, col) ==
    IF col \in file.columns /\ col \in DOMAIN row THEN row[col] ELSE ""
\* the same for the asset id, which is a sequence of characters; the files
\* drawn here hold ids in the column asset_id only, and no mapping sends the
\* role to another column of the header
RowGetId(file, row, col) ==
    IF col \in file.columns /\ col \in DOMAIN row /\ col = "asset_id" THEN row[col] ELSE <<>>

\* str.strip() on a sequence of characters
RECURSIVE LStrip(_)
LStrip(id) == IF id # <<>> /\ Head(id) = " " THEN LStrip(Tail(id)) ELSE id
RECURSIVE RStrip(_)
RStrip(id) == IF id # <<>> /\ id[Len(id)] = " " THEN RStrip(SubSeq(id, 1, Len(id) - 1)) ELSE id
Strip(id) == RStrip(LStrip(id))

\* str.lower() on the type names the model uses
Lower(name) == IF name = "Pole" THEN "pole" ELSE name

\* asset_types_cache: lower-cased name -> the AssetType of that name
CacheHas(types, key) == \E n \in types : Lower(n) = key
CacheGet(types, key) == CHOOSE n \in types : Lower(n) = key

\* A CSV file: header = FALSE for a file of no line at all, of which
\* csv.DictReader gives fieldnames = None; columns is the header otherwise
CsvFile(columns, lines) == [header |-> TRUE, columns |-> columns, rows |-> lines]
EmptyCsvFile == [header |-> FALSE, columns |-> {}, rows |-> <<>>]

\* line 38: {**DEFAULT_MAPPING, **(column_mapping or {})}
MergedMapping(column_mapping) ==
    [role \in DOMAIN DEFAULT_MAPPING |->
        IF role \in DOMAIN column_mapping THEN column_mapping[role]
        ELSE DEFAULT_MAPPING[role]]

\* lines 47-49
RequiredRoles(fixed_asset_type) ==
    {"asset_id", "x", "y"} \cup (IF fixed_asset_type = "" THEN {"asset_type"} ELSE {})

\* lines 46-57: the required roles whose column the header lacks
MissingRoles(file, mapping, fixed_asset_type) ==
    {role \in RequiredRoles(fixed_asset_type) :
        mapping[role] = "" \/ mapping[role] \notin file.columns}

\* lines 46-57: the exception the validation of the columns ends in, "" for
\* none.  "col not in fieldnames" is a TypeError when fieldnames is None.
ColumnCheck(file, mapping, fixed_asset_type) ==
    IF ~file.header /\ \E role \in RequiredRoles(fixed_asset_type) : mapping[role] # ""
    THEN "TypeError"
    ELSE IF MissingRoles(file, mapping, fixed_asset_type) # {} THEN "ValueError"
    ELSE ""

\* What is kept of one import_csv request: its arguments, the rows of the
\* database before it, the exception import_assets_from_csv raised and the
\* counts of the results it returned
CsvCall(file, column_mapping, fixed_asset_type, before, raised, results) ==
    [file |-> file, column_mapping |-> column_mapping,
     fixed_asset_type |-> fixed_asset_type, before |-> before, raised |-> raised,
     results |-> results]

\* Every accepted row creating an asset, whether its asset_id exists or not
AlwaysCreate(tbl, id, type, x, y, batch, group) ==
    [tbl EXCEPT ![Min(FreePks(tbl))] =
        [NoAsset EXCEPT !.exists = TRUE, !.asset_id = id, !.asset_type = type,
                        !.original_x = x, !.original_y = y,
                        !.import_batch = batch, !.layer_group = group]]

\* Asset.objects.update_or_create(project, asset_id, defaults): the row of that
\* asset_id is updated, or a row is created under the smallest free key
UpdateOrCreate(tbl, id, type, x, y, batch, group) ==
    IF HasAssetId(tbl, id)
    THEN LET k == CHOOSE k \in DOMAIN tbl : tbl[k].exists /\ tbl[k].asset_id = id
         IN  [tbl EXCEPT ![k].asset_type = type, ![k].original_x = x, ![k].original_y = y,
                         ![k].import_batch = batch, ![k].layer_group = group]
    ELSE [tbl EXCEPT ![Min(FreePks(tbl))] =
             [NoAsset EXCEPT !.exists = TRUE, !.asset_id = id, !.asset_type = type,
                             !.original_x = x, !.original_y = y,
                             !.import_batch = batch, !.layer_group = group]]

\* lines 106-177: one data row.  st = [assets, types, created, updated, errors]
ImportRow(file, mapping, fixed, batch, group, row, st) ==
    LET asset_id == Strip(RowGetId(file, row, mapping.asset_id))
        x == PyFloat(Str(RowGet(file, row, mapping.x)))
        y == PyFloat(Str(RowGet(file, row, mapping.y)))
        type_name == RowGet(file, row, mapping.asset_type)
        fail == [st EXCEPT !.errors = @ + 1]
    IN  IF asset_id = <<>> THEN fail
        ELSE IF ~x.ok \/ ~y.ok THEN fail
        ELSE IF fixed = "" /\ type_name = "" THEN fail
        ELSE LET types == IF fixed # "" \/ CacheHas(st.types, Lower(type_name))
                          THEN st.types ELSE st.types \cup {type_name}
                 type == IF fixed # "" THEN CacheGet(st.types, Lower(fixed))
                         ELSE CacheGet(types, Lower(type_name))
             IN  [st EXCEPT !.types = types,
                            !.assets = UpdateOrCreate(st.assets, asset_id, type, x.v, y.v, batch, group),
                            !.created = IF HasAssetId(st.assets, asset_id) THEN @ ELSE @ + 1,
                            !.updated = IF HasAssetId(st.assets, asset_id) THEN @ + 1 ELSE @]

RECURSIVE ImportRows(_, _, _, _, _, _, _)
ImportRows(file, mapping, fixed, batch, group, rs, st) ==
    IF rs = <<>> THEN st
    ELSE ImportRows(file, mapping, fixed, batch, group, Tail(rs),
                    ImportRow(file, mapping, fixed, batch, group, Head(rs), st))

\* The asset ids of the file that no asset of the project has
NewIds(file, column_mapping) ==
    {Strip(RowGetId(file, file.rows[i], MergedMapping(column_mapping).asset_id)) :
        i \in 1..Len(file.rows)}
    \ {assets[k].asset_id : k \in Existing(assets)}

\* import_csv: 400 for the exception of the column validation; otherwise the fixed
\* type is resolved, a batch and its layer group are created, the rows are
\* imported and the batch's asset_count is set
import_csv(file, column_mapping, fixed_asset_type) ==
    /\ last.op = "idle"
    /\ project.exists
    /\ FreePks(batches) # {} /\ FreePks(groups) # {}
    /\ Cardinality(FreePks(assets)) >= Cardinality(NewIds(file, column_mapping))
    /\ LET mapping == MergedMapping(column_mapping)
           raised == ColumnCheck(file, mapping, fixed_asset_type)
           types0 == IF fixed_asset_type # "" /\ ~CacheHas(assetTypes, Lower(fixed_asset_type))
                     THEN assetTypes \cup {fixed_asset_type} ELSE assetTypes
           batch == Min(FreePks(batches))
           group == Min(FreePks(groups))
           st == ImportRows(file, mapping, fixed_asset_type, batch, group, file.rows,
                            [assets |-> assets, types |-> types0,
                             created |-> 0, updated |-> 0, errors |-> 0])
           call == CsvCall(file, column_mapping, fixed_asset_type,
                           [assets |-> assets, batches |-> batches, groups |-> groups,
                            assetTypes |-> assetTypes],
                           raised,
                           IF raised # "" THEN [created |-> 0, updated |-> 0, errors |-> 0]
                           ELSE [created |-> st.created, updated |-> st.updated,
                                 errors |-> st.errors])
       IN  IF raised # ""
           THEN /\ UNCHANGED <<assets, batches, groups, assetTypes>>
                /\ last' = Last("import_csv", 400, call, project)
           ELSE /\ assets' = st.assets
                /\ assetTypes' = st.types
                /\ batches' = [batches EXCEPT ![batch] =
                                  [exists |-> TRUE, asset_count |-> st.created + st.updated]]
                /\ groups' = [groups EXCEPT ![group] = [exists |-> TRUE, import_batch |-> batch]]
                /\ last' = Last("import_csv", 200, call, project)
    /\ UNCHANGED <<project, logs, links, calls>>

-----------------------------------------------------------------------------
(* import_batch_delete (DELETE) *)

\* The reference cleared whatever remains
ClearCalibrationAlways(p, remaining) ==
    [p EXCEPT !.ref_asset_id = <<>>, !.ref_pixel_x = Int2F(0),
              !.ref_pixel_y = Int2F(0), !.asset_rotation = Int2F(0)]

\* lines 326-333: the reference calibration is cleared when no asset remains
ClearCalibration(p, remaining) ==
    IF remaining = 0
    THEN [p EXCEPT !.ref_asset_id = <<>>, !.ref_pixel_x = Int2F(0),
                   !.ref_pixel_y = Int2F(0), !.asset_rotation = Int2F(0)]
    ELSE p

\* The assets of the batch left in place
BatchAssetsKept(tbl, b) == tbl

\* line 322: batch.assets.all().delete()
DeleteBatchAssets(tbl, b) ==
    [k \in AssetPks |->
        IF tbl[k].exists /\ tbl[k].import_batch = b THEN NoAsset ELSE tbl[k]]

\* What is kept of one import_batch_delete request: the batch and the rows
\* before it
BatchDeleteCall(b) == [b |-> b, before |-> [assets |-> assets, batches |-> batches]]

import_batch_delete(b) ==
    /\ last.op = "idle"
    /\ batches[b].exists
    /\ assets' = DeleteBatchAssets(assets, b)
    /\ logs' = LogsOf(logs, assets')
    /\ batches' = [batches EXCEPT ![b] = NoBatch]
    /\ groups' = [g \in GroupPks |->
                    IF groups[g].exists /\ groups[g].import_batch = b
                    THEN [groups[g] EXCEPT !.import_batch = 0] ELSE groups[g]]
    /\ project' = ClearCalibration(project, Cardinality(Existing(assets')))
    /\ links' = [l \in LinkPks |->
                   IF links[l].exists /\ links[l].import_batch = b
                   THEN [links[l] EXCEPT !.import_batch = 0] ELSE links[l]]
    /\ last' = Last("import_batch_delete", 204, BatchDeleteCall(b), project)
    /\ UNCHANGED <<assetTypes, calls>>

-----------------------------------------------------------------------------
(* import_project and _create_project_from_data *)

\* A project file: file.project gives raw values to the fields it names (the
\* others take the .get() defaults); import_batches, layer_groups and assets
\* are the lists of the file.  An asset names its batch and its group by their
\* position in those lists (0: none).

\* lines 637-655: Project.objects.create; no value is validated, a float
\* column takes what float() accepts and any other value raises
FileFieldOk(f, raw) ==
    CASE f \in PatchFloatFields -> PyFloat(raw).ok
      [] f = "scale_calibrated" -> raw.t = "bool"
      [] OTHER -> raw.t = "str"

FileFieldValue(f, raw) ==
    IF f = "scale_calibrated" THEN raw.v = Int2F(1) ELSE PatchFieldValue(f, raw)

FileProject(data) ==
    [f \in DOMAIN DefaultProject |->
        IF f \in DOMAIN data THEN FileFieldValue(f, data[f]) ELSE DefaultProject[f]]

\* the rows under the keys 1..Len(list), the remaining keys free
FileAssets(file) ==
    [k \in AssetPks |->
        IF k <= Len(file.assets)
        THEN LET a == file.assets[k]
             IN  [exists |-> TRUE, asset_id |-> a.asset_id, asset_type |-> a.asset_type_name,
                  import_batch |-> a.import_batch, layer_group |-> a.layer_group,
                  original_x |-> a.original_x, original_y |-> a.original_y,
                  adjusted_x |-> a.adjusted_x, adjusted_y |-> a.adjusted_y,
                  is_adjusted |-> a.is_adjusted]
        ELSE NoAsset]

\* unique_together (project, asset_id): a second row of the same id raises
FileAssetsDistinct(file) ==
    \A i, j \in 1..Len(file.assets) :
        file.assets[i].asset_id = file.assets[j].asset_id => i = j

\* lines 776-791: one Link row for each entry of the file's list
FileLinks(file) ==
    [k \in LinkPks |->
        IF k <= Len(file.links)
        THEN LET l == file.links[k]
             IN  [exists |-> TRUE, link_id |-> l.link_id,
                  import_batch |-> l.import_batch, layer_group |-> l.layer_group]
        ELSE NoLink]

\* unique_together (project, link_id)
FileLinksDistinct(file) ==
    \A i, j \in 1..Len(file.links) :
        file.links[i].link_id = file.links[j].link_id => i = j

ImportOk(file) ==
    /\ \A f \in DOMAIN file.project : FileFieldOk(f, file.project[f])
    /\ FileAssetsDistinct(file)
    /\ FileLinksDistinct(file)

\* The layer groups and the import batches of the file, one row for each
FileGroups(file) ==
    [g \in GroupPks |->
        IF g <= file.layer_groups THEN [exists |-> TRUE, import_batch |-> 0] ELSE NoGroup]

FileBatches(file) ==
    [b \in BatchPks |->
        IF b <= Len(file.import_batches)
        THEN [exists |-> TRUE, asset_count |-> file.import_batches[b]] ELSE NoBatch]

\* The asset types the import gets or creates
FileTypes(file) ==
    file.asset_types \cup {file.assets[i].asset_type_name : i \in 1..Len(file.assets)}

\* The rows before an import
ImportBefore ==
    [project |-> project, assetTypes |-> assetTypes, groups |-> groups,
     batches |-> batches, assets |-> assets, links |-> links]

\* The entries of a list that are created before one of them repeats an id
\* (the second row of an id raises IntegrityError)
DistinctUpTo(ids, n) == \A i, j \in 1..n : ids[i] = ids[j] => i = j
WrittenCount(ids) == Cardinality({n \in 1..Len(ids) : DistinctUpTo(ids, n)})

\* lines 622-791: the rows the import has written when it ends or when its
\* first exception is raised: the project, the asset types, the groups, the
\* batches, the assets and the links, in this order
ImportWritten(file) ==
    IF \E f \in DOMAIN file.project : ~FileFieldOk(f, file.project[f])
    THEN ImportBefore
    ELSE LET na == WrittenCount([i \in 1..Len(file.assets) |-> file.assets[i].asset_id])
             nl == IF na = Len(file.assets)
                   THEN WrittenCount([i \in 1..Len(file.links) |-> file.links[i].link_id])
                   ELSE 0
             part == [file EXCEPT !.assets = SubSeq(file.assets, 1, na),
                                  !.links = SubSeq(file.links, 1, nl)]
         IN  [project |-> FileProject(file.project),
              assetTypes |-> assetTypes \cup FileTypes(part),
              groups |-> FileGroups(file),
              batches |-> FileBatches(file),
              assets |-> FileAssets(part),
              links |-> FileLinks(part)]

\* The rows written so far kept when the block ends in an exception
NotAtomic(ok, before, written) == written

\* line 621, with transaction.atomic(): the rows written are kept when the
\* block ends, those before it are restored when it raises
Atomic(ok, before, written) == IF ok THEN written ELSE before

\* What is kept of one import_project request: the file and the rows before it
ImportCall(file) == [file |-> file, before |-> ImportBefore]

\* import_project: the project of the file is created in one transaction;
\* an exception is answered 500
import_project(file) ==
    /\ last.op = "idle"
    /\ ~project.exists
    /\ Len(file.assets) <= MaxAssets
    /\ Len(file.import_batches) <= MaxBatches
    /\ file.layer_groups <= MaxGroups
    /\ Len(file.links) <= MaxLinks
    /\ LET kept == Atomic(ImportOk(file), ImportBefore, ImportWritten(file))
       IN  /\ project' = kept.project
           /\ assetTypes' = kept.assetTypes
           /\ groups' = kept.groups
           /\ batches' = kept.batches
           /\ assets' = kept.assets
           /\ links' = kept.links
    /\ last' = Last("import_project", IF ImportOk(file) THEN 200 ELSE 500,
                    ImportCall(file), project)
    /\ UNCHANGED <<logs, calls>>

-----------------------------------------------------------------------------
(* Project creation *)

\* ProjectListCreate with only a name: the model defaults
create_project ==
    /\ last.op = "idle"
    /\ ~project.exists
    /\ project' = DefaultProject
    /\ last' = Last("create", 201, EmptyReq, project)
    /\ UNCHANGED <<rows, links, calls>>

\* No projection has been called
NoGeo == [called |-> "none"]

\* _parse_finite_float has not been called
NoParse == [called |-> FALSE]

\* No request is being served beside the one of last
NoThreads == <<>>

\* No project file has been exported
\* Bounds: the sheets, the PDF files, the cuts of a sheet and the layer of a
\* sheet that is split
MaxSheets == 2
MaxFiles == 1
MaxCuts == 2
MaxLayer == 2

SheetPks == 1..MaxSheets
FileNames == 1..MaxFiles

\* A Sheet row (models.py 50-91): pdf_file is the name of the file in storage
\* (0: none), name is the base name followed by its suffixes
NoSheet ==
    [exists |-> FALSE, name |-> <<>>, pdf_file |-> 0, page_number |-> 1,
     offset_x |-> Int2F(0), offset_y |-> Int2F(0), rotation |-> Int2F(0),
     z_index |-> 0, cuts_json |-> <<>>]
NoSheets == [s \in SheetPks |-> NoSheet]
NoStorage == {}

\* The requests that delete a sheet at the same time
DeleteWorkers == {1, 2}
NoDelete == [stage |-> "idle", pk |-> 0, pdf_path |-> 0, other_pdf_users |-> 0]
NoDeletes == [w \in DeleteWorkers |-> NoDelete]

\* Bound: the Project rows
MaxProjects == 4

\* A project name: a base text followed by the " (k)" endings added to it
ProjectName(base, endings) == [base |-> base, endings |-> endings]

\* No Project row and no import looking for a name
NoNaming ==
    [existing |-> {}, pc |-> "idle", before |-> {}, base_name |-> ProjectName("", <<>>),
     name |-> ProjectName("", <<>>), counter |-> 1]

NoTrip == [stage |-> "none"]

\* No layer group to join
NoJoinable == <<>>

Init ==
    /\ project = NoProject
    /\ assets = [a \in AssetPks |-> NoAsset]
    /\ batches = [b \in BatchPks |-> NoBatch]
    /\ groups = [g \in GroupPks |-> NoGroup]
    /\ logs = <<>>
    /\ assetTypes = {}
    /\ last = Idle
    /\ geo = NoGeo
    /\ parse = NoParse
    /\ threads = NoThreads
    /\ links = [l \in LinkPks |-> NoLink]
    /\ trip = NoTrip
    /\ naming = NoNaming
    /\ deletes = NoDeletes
    /\ storage = NoStorage
    /\ sheets = NoSheets
    /\ parent_group = NoJoinable

\* The response is returned and the request ends: what was recorded of it is dropped
respond ==
    /\ last.op # "idle"
    /\ last' = Idle
    /\ UNCHANGED <<project, rows, links, calls>>

Next ==
    \/ create_project
    \/ \E req \in CalibRequests : calibrate_project(req)
    \/ respond

Spec == Init /\ [][Next]_vars

-----------------------------------------------------------------------------
(* The database specification: every operation that writes a project or   *)
(* its rows, each with a few inputs.                                      *)

\* Calibration requests: the reference set on asset A1, a scale, an origin
\* with a coordinate unit, and one that fails after the scale was accepted
DbRequests ==
    {[EmptyReq EXCEPT !.ref_asset_id = IdStr(A1), !.ref_pixel_x = Str("12"),
                      !.asset_rotation = Num(45)],
     [EmptyReq EXCEPT !.pixel_distance = Num(3), !.real_distance = Num(2)],
     [EmptyReq EXCEPT !.pixel_distance = Num(200), !.real_distance = Num(2),
                      !.coord_unit = Str("feet")]}

DbPatches ==
    {[pixels_per_meter |-> Num(0)], [pixels_per_meter |-> Str("abc")],
     [canvas_rotation |-> Num(90)]}

FileAsset(id, batch) ==
    [asset_id |-> id, asset_type_name |-> "pole", import_batch |-> batch, layer_group |-> 0,
     original_x |-> Int2F(12), original_y |-> Int2F(0),
     adjusted_x |-> Null, adjusted_y |-> Null, is_adjusted |-> FALSE]

File(data, batchList, assetList) ==
    [project |-> data, asset_types |-> {}, import_batches |-> batchList,
     layer_groups |-> 0, assets |-> assetList, links |-> <<>>]

DbFiles ==
    {File([ref_asset_id |-> IdStr(A1), ref_pixel_x |-> Num(12)], <<1>>, <<FileAsset(A1, 1)>>),
     File([pixels_per_meter |-> [t |-> "num", v |-> PInf, s |-> ""]], <<>>, <<>>),
     File([pixels_per_meter |-> Other], <<>>, <<>>),
     File([coord_unit |-> Str("degrees")], <<>>, <<FileAsset(A1, 0), FileAsset(A1, 0)>>)}

CsvRow(id, type, x) == [asset_id |-> id, asset_type |-> type, x |-> x, y |-> "0", name |-> ""]
AllColumns == {"asset_id", "asset_type", "x", "y", "name"}

DbCsvFiles ==
    {CsvFile(AllColumns, <<CsvRow(A1, "Pole", "12")>>),
     CsvFile(AllColumns, <<CsvRow(A2, "pole", "12"), CsvRow(<<" ">>, "pole", "12")>>),
     CsvFile(AllColumns \ {"x"}, <<CsvRow(A2, "pole", "12")>>)}

NoMapping == [r \in {} |-> ""]

NextDb ==
    \/ create_project
    \/ \E patch \in DbPatches : update_project(patch)
    \/ delete_project
    \/ \E file \in DbFiles : import_project(file)
    \/ \E req \in DbRequests : calibrate_project(req)
    \/ \E file \in DbCsvFiles, fixed \in {"", "pole"} : import_csv(file, NoMapping, fixed)
    \/ \E id \in AssetIds : create_asset(id, "pole")
    \/ \E pk \in AssetPks : delete_asset(pk)
    \/ \E pk \in AssetPks, rx \in {None, Num(5)} :
          Len(logs) < MaxLogs /\ adjust_asset(pk, rx, Num(7))
    \/ \E b \in BatchPks : import_batch_delete(b)
    \/ respond

SpecDb == Init /\ [][NextDb]_vars

-----------------------------------------------------------------------------
(* cadastre_service: the projection of GeoJSON geometry to canvas pixels *)

\* math.cos and math.sin of an angle given in degrees, at the angles the
\* model uses.  cos(0.0) = 1.0 and sin(0.0) = 0.0 are what the library
\* returns; at the other angles the table holds the value of the function,
\* which the library returns to the nearest float.
CosDeg(a) ==
    CASE a = Int2F(0)   -> Int2F(1)
      [] a = Int2F(60)  -> Fin(1, 2)
      [] a = Int2F(90)  -> Int2F(0)
      [] a = Int2F(180) -> Int2F(-1)

SinDeg(a) ==
    CASE a = Int2F(0)   -> Int2F(0)
      [] a = Int2F(90)  -> Int2F(1)
      [] a = Int2F(180) -> Int2F(0)

\* line 240: metres per degree
MetersPerDegree == 111320

\* The offset measured from the origin rather than from the reference
DegreesFromOrigin(v, ref) == v

\* lines 234-235: d_lon, d_lat
DegreesFrom(v, ref) == FSub(v, ref)

\* lines 239-241
MetersX(d_lon, ref_lat) == FMul(FMul(d_lon, Int2F(MetersPerDegree)), CosDeg(ref_lat))
MetersY(d_lat) == FNeg(FMul(d_lat, Int2F(MetersPerDegree)))

\* A rotation that takes both terms by the cosine
RotXMixed(meters_x, meters_y, deg) ==
    FSub(FMul(meters_x, CosDeg(deg)), FMul(meters_y, CosDeg(deg)))

\* lines 244-249
RotX(meters_x, meters_y, deg) ==
    FSub(FMul(meters_x, CosDeg(deg)), FMul(meters_y, SinDeg(deg)))
RotY(meters_x, meters_y, deg) ==
    FAdd(FMul(meters_x, SinDeg(deg)), FMul(meters_y, CosDeg(deg)))

\* lines 230-255: one pass of the loop; coord[0] and coord[1] are read, any
\* further element of the point is dropped
TransformPoint(coord, ref_lat, ref_lon, ref_pixel_x, ref_pixel_y, ppm, asset_rotation_deg) ==
    LET meters_x == MetersX(DegreesFrom(coord[1], ref_lon), ref_lat)
        meters_y == MetersY(DegreesFrom(coord[2], ref_lat))
    IN  <<FAdd(ref_pixel_x, FMul(RotX(meters_x, meters_y, asset_rotation_deg), ppm)),
          FAdd(ref_pixel_y, FMul(RotY(meters_x, meters_y, asset_rotation_deg), ppm))>>

transform_ring(ring, ref_lat, ref_lon, ref_pixel_x, ref_pixel_y, ppm, asset_rotation_deg) ==
    [i \in 1..Len(ring) |->
        TransformPoint(ring[i], ref_lat, ref_lon, ref_pixel_x, ref_pixel_y, ppm,
                       asset_rotation_deg)]

\* A projection that keeps the outer boundary of each polygon only
transform_geometry_outer_only(geometry, ref_lat, ref_lon, ref_pixel_x, ref_pixel_y, ppm, asset_rotation_deg) ==
    LET Ring(r) == transform_ring(r, ref_lat, ref_lon, ref_pixel_x, ref_pixel_y, ppm,
                                  asset_rotation_deg)
        Outer(polygon) == IF polygon = <<>> THEN <<>> ELSE <<Ring(polygon[1])>>
    IN  [type |-> geometry.type,
         coordinates |->
            IF geometry.type = "Polygon" THEN Outer(geometry.coordinates)
            ELSE [q \in 1..Len(geometry.coordinates) |-> Outer(geometry.coordinates[q])]]

transform_geometry(geometry, ref_lat, ref_lon, ref_pixel_x, ref_pixel_y, ppm, asset_rotation_deg) ==
    LET Ring(r) == transform_ring(r, ref_lat, ref_lon, ref_pixel_x, ref_pixel_y, ppm,
                                  asset_rotation_deg)
        Polygon(rings) == [i \in 1..Len(rings) |-> Ring(rings[i])]
    IN  [type |-> geometry.type,
         coordinates |->
            CASE geometry.type = "Polygon" -> Polygon(geometry.coordinates)
              [] geometry.type = "MultiPolygon" ->
                    [q \in 1..Len(geometry.coordinates) |-> Polygon(geometry.coordinates[q])]
              [] OTHER -> geometry.coordinates]

\* A feature collection: has_features is "'features' in geojson_features";
\* a feature is [geometry, properties], geometry NoGeometry when it has none;
\* the properties are a set of <<key, value>> pairs, has_properties is
\* "'properties' in feature"
NoGeometry == [type |-> "", coordinates |-> <<>>]
Feature(geometry, properties) ==
    [geometry |-> geometry, has_properties |-> TRUE, properties |-> properties]
BareFeature(geometry) ==
    [geometry |-> geometry, has_properties |-> FALSE, properties |-> {}]

\* The properties left behind
FeaturePropertiesDropped(feature) == {}

\* line 129: feature.get('properties', {})
FeatureProperties(feature) == IF feature.has_properties THEN feature.properties ELSE {}

\* lines 104-108: Asset.objects.filter(project, asset_id).first(), 0 for None
RefAsset(p, tbl) ==
    IF p.ref_asset_id = <<>> \/ ~HasAssetId(tbl, p.ref_asset_id) THEN 0
    ELSE Min({k \in Existing(tbl) : tbl[k].asset_id = p.ref_asset_id})

\* The loop left at the first feature that is not projected
RECURSIVE TransformFeaturesUntilSkipped(_, _, _, _)
TransformFeaturesUntilSkipped(features, p, ref_lat, ref_lon) ==
    IF features = <<>> THEN <<>>
    ELSE LET feature == Head(features)
         IN  IF feature.geometry = NoGeometry
                \/ feature.geometry.type \notin {"Polygon", "MultiPolygon"}
             THEN <<>>
             ELSE <<[type |-> "Feature",
                     geometry |-> transform_geometry(feature.geometry, ref_lat, ref_lon,
                                                     p.ref_pixel_x, p.ref_pixel_y,
                                                     p.pixels_per_meter, p.asset_rotation),
                     properties |-> FeatureProperties(feature)]>>
                  \o TransformFeaturesUntilSkipped(Tail(features), p, ref_lat, ref_lon)

\* lines 127-144: the loop over the features
RECURSIVE TransformFeatures(_, _, _, _)
TransformFeatures(features, p, ref_lat, ref_lon) ==
    IF features = <<>> THEN <<>>
    ELSE LET feature == Head(features)
             rest == TransformFeatures(Tail(features), p, ref_lat, ref_lon)
         IN  IF feature.geometry = NoGeometry
                \/ feature.geometry.type \notin {"Polygon", "MultiPolygon"}
             THEN rest
             ELSE <<[type |-> "Feature",
                     geometry |-> transform_geometry(feature.geometry, ref_lat, ref_lon,
                                                     p.ref_pixel_x, p.ref_pixel_y,
                                                     p.pixels_per_meter, p.asset_rotation),
                     properties |-> FeatureProperties(feature)]>> \o rest

\* "not ppm or ppm <= 0": a float is falsy when it is zero, a NaN is neither
transform_cadastre_to_project_coords(geojson_features, p, tbl) ==
    IF ~geojson_features.has_features THEN <<>>
    ELSE IF RefAsset(p, tbl) = 0 THEN <<>>
    ELSE IF FLe0(p.pixels_per_meter) THEN <<>>
    ELSE TransformFeatures(geojson_features.features, p,
                           current_y(tbl[RefAsset(p, tbl)]), current_x(tbl[RefAsset(p, tbl)]))

-----------------------------------------------------------------------------
(* The projection specification: Init draws a geometry and the arguments   *)
(* of the projection, the actions apply the three functions to them.       *)

\* Bounds: points of a ring, rings of a polygon, polygons of a MultiPolygon
MaxPoints == 3
MaxRings == 2
MaxPolygons == 2

\* [lon, lat] or [lon, lat, altitude]
GeoPoint(i) ==
    CASE i = 1 -> <<Int2F(1), Int2F(60)>>
      [] i = 2 -> <<Int2F(2), Int2F(60)>>
      [] i = 3 -> <<Int2F(1), Int2F(0)>>
      [] OTHER -> <<Int2F(1), Int2F(58), Int2F(i)>>

PointList == [i \in 1..MaxPoints |-> GeoPoint(i)]

SeqsUpTo(S, n) == UNION {[1..m -> S] : m \in 0..n}

\* The rings: the runs of consecutive points of PointList
Rings == {SubSeq(PointList, i, j) : i \in 1..MaxPoints, j \in 0..MaxPoints}
Polygons == SeqsUpTo(Rings, MaxRings)
MultiPolygons == SeqsUpTo(SeqsUpTo(Rings, 1), MaxPolygons)

Polygon(rings) == [type |-> "Polygon", coordinates |-> rings]
MultiPolygon(polygons) == [type |-> "MultiPolygon", coordinates |-> polygons]
PointGeometry == [type |-> "Point", coordinates |-> GeoPoint(1)]
LineGeometry == [type |-> "LineString", coordinates |-> PointList]

Geometries ==
    {Polygon(c) : c \in Polygons} \cup {MultiPolygon(c) : c \in MultiPolygons}
        \cup {PointGeometry, LineGeometry}

\* A polygon with a hole, and two polygons
HoledPolygon == Polygon(<<PointList, SubSeq(PointList, 1, MaxPoints - 1)>>)
TwoPolygons == MultiPolygon(<<<<PointList>>, <<SubSeq(PointList, 2, MaxPoints)>>>>)

GeoArgs(lat, lon, px, py, ppm, rot, ref) ==
    [ref_lat |-> lat, ref_lon |-> lon, ref_pixel_x |-> px, ref_pixel_y |-> py,
     ppm |-> ppm, asset_rotation_deg |-> rot, ref_asset_id |-> ref]

ScaleValues == {Int2F(10), Fin(3, 2), Int2F(0), Int2F(-3), PInf, NaN}
RotationValues == {Int2F(0), Int2F(90), Int2F(180)}

BasicArgs ==
    {GeoArgs(Int2F(60), Int2F(1), Int2F(500), Int2F(300), Int2F(10), Int2F(0), A1),
     GeoArgs(Int2F(0), Int2F(1), Int2F(12), Int2F(-3), Fin(3, 2), Int2F(90), A1)}

AllArgs ==
    {GeoArgs(ref[2], ref[1], Int2F(500), Int2F(300), ppm, rot, A1) :
        ref \in {GeoPoint(1), GeoPoint(3)}, ppm \in ScaleValues, rot \in RotationValues}

NoRefArgs ==
    {GeoArgs(Int2F(60), Int2F(1), Int2F(500), Int2F(300), Int2F(10), Int2F(0), ref) :
        ref \in {<<>>, Ghost}}

\* Every geometry under two settings, two geometries under every setting
GeoCases ==
    (Geometries \X BasicArgs) \cup ({HoledPolygon, TwoPolygons} \X (AllArgs \cup NoRefArgs))

\* A call: what it was given, what it returned, and whether it raised.  None
\* of the three functions has a raise statement, and none of their
\* operations raises on the values drawn here.
\* ring is the argument of the call (a ring, a geometry or a collection) as
\* it stands after the call and original the argument as it was passed;
\* again is what a second call on the same argument returned.
GeoCall(geometry, args, called, ring, out) ==
    [geometry |-> geometry, args |-> args, called |-> called, ring |-> ring, out |-> out,
     raised |-> FALSE, original |-> <<>>, again |-> <<>>, repeated |-> FALSE]

\* The argument overwritten with the pixels, as a projection in place leaves it
InputOverwritten(input, out) == out

\* lines 175-194, 228-255: the output is built in new lists, nothing is
\* assigned into the argument
InputKept(input, out) == input

\* The project the arguments describe, with the asset A1 at the reference
\* point.  A NaN is not a value a stored project holds on every database:
\* for that scale only the functions that take the scale as an argument run.
GeoProject(args) ==
    IF IsNaN(args.ppm) THEN NoProject
    ELSE [DefaultProject EXCEPT !.pixels_per_meter = args.ppm,
                                !.asset_rotation = args.asset_rotation_deg,
                                !.ref_pixel_x = args.ref_pixel_x,
                                !.ref_pixel_y = args.ref_pixel_y,
                                !.ref_asset_id = args.ref_asset_id]

GeoAssets(args) ==
    [k \in AssetPks |->
        IF k = 1 /\ ~IsNaN(args.ppm)
        THEN [NoAsset EXCEPT !.exists = TRUE, !.asset_id = A1, !.asset_type = "pole",
                             !.original_x = args.ref_lon, !.original_y = args.ref_lat]
        ELSE NoAsset]

InitGeo ==
    /\ \E c \in GeoCases :
          /\ geo = GeoCall(c[1], c[2], "none", <<>>, <<>>)
          /\ project = GeoProject(c[2])
          /\ assets = GeoAssets(c[2])
    /\ batches = [b \in BatchPks |-> NoBatch]
    /\ groups = [g \in GroupPks |-> NoGroup]
    /\ logs = <<>>
    /\ assetTypes = {"pole"}
    /\ last = Idle
    /\ parse = NoParse
    /\ threads = NoThreads
    /\ links = [l \in LinkPks |-> NoLink]
    /\ trip = NoTrip
    /\ naming = NoNaming
    /\ deletes = NoDeletes
    /\ storage = NoStorage
    /\ sheets = NoSheets
    /\ parent_group = NoJoinable

RingsOf(geometry) ==
    CASE geometry.type = "Polygon" ->
            {geometry.coordinates[i] : i \in 1..Len(geometry.coordinates)}
      [] geometry.type = "MultiPolygon" ->
            UNION {{geometry.coordinates[q][i] : i \in 1..Len(geometry.coordinates[q])} :
                      q \in 1..Len(geometry.coordinates)}
      [] OTHER -> {}

call_transform_ring(ring) ==
    /\ geo.called = "none"
    /\ LET out == transform_ring(ring, geo.args.ref_lat, geo.args.ref_lon,
                                 geo.args.ref_pixel_x, geo.args.ref_pixel_y,
                                 geo.args.ppm, geo.args.asset_rotation_deg)
       IN  geo' = [geo EXCEPT !.called = "transform_ring", !.original = ring,
                              !.ring = InputKept(ring, out), !.out = out]
    /\ UNCHANGED <<project, rows, last, parse, threads, links, trip, parent_group, sheets, storage, deletes, naming>>

call_transform_geometry ==
    /\ geo.called = "none"
    /\ LET out == transform_geometry(geo.geometry, geo.args.ref_lat, geo.args.ref_lon,
                                     geo.args.ref_pixel_x, geo.args.ref_pixel_y,
                                     geo.args.ppm, geo.args.asset_rotation_deg)
       IN  geo' = [geo EXCEPT !.called = "transform_geometry", !.original = geo.geometry,
                              !.ring = InputKept(geo.geometry, out), !.out = out]
    /\ UNCHANGED <<project, rows, last, parse, threads, links, trip, parent_group, sheets, storage, deletes, naming>>

\* The collections made of a geometry: without the key 'features', and with
\* the geometry between a feature that has none and a feature of another type
Collections(geometry) ==
    {[has_features |-> FALSE, features |-> <<>>],
     [has_features |-> TRUE,
      features |-> <<Feature(NoGeometry, {<<"lot", "1">>}), Feature(geometry, {<<"lot", "2">>}),
                     Feature(PointGeometry, {<<"lot", "3">>})>>],
     [has_features |-> TRUE,
      features |-> <<Feature(geometry, {<<"lot", "1">>, <<"plan", "RP1">>}),
                     BareFeature(PointGeometry),
                     Feature(HoledPolygon, {<<"lot", "2">>}),
                     BareFeature(geometry)>>]}

call_transform_cadastre(geojson_features) ==
    /\ geo.called = "none"
    /\ project.exists
    /\ LET out == transform_cadastre_to_project_coords(geojson_features, project, assets)
       IN  geo' = [geo EXCEPT !.called = "transform_cadastre_to_project_coords",
                              !.original = geojson_features,
                              !.ring = geojson_features, !.out = out]
    /\ UNCHANGED <<project, rows, last, parse, threads, links, trip, parent_group, sheets, storage, deletes, naming>>

\* The same function called a second time on the same argument, the
\* calibration as it was
call_again ==
    /\ geo.called # "none"
    /\ ~geo.repeated
    /\ geo' = [geo EXCEPT
                 !.repeated = TRUE,
                 !.again =
                    CASE geo.called = "transform_ring" ->
                            transform_ring(geo.ring, geo.args.ref_lat, geo.args.ref_lon,
                                           geo.args.ref_pixel_x, geo.args.ref_pixel_y,
                                           geo.args.ppm, geo.args.asset_rotation_deg)
                      [] geo.called = "transform_geometry" ->
                            transform_geometry(geo.ring, geo.args.ref_lat, geo.args.ref_lon,
                                               geo.args.ref_pixel_x, geo.args.ref_pixel_y,
                                               geo.args.ppm, geo.args.asset_rotation_deg)
                      [] OTHER ->
                            transform_cadastre_to_project_coords(geo.ring, project, assets)]
    /\ UNCHANGED <<project, rows, last, parse, threads, links, trip, parent_group, sheets, storage, deletes, naming>>

NextGeo ==
    \/ \E ring \in RingsOf(geo.geometry) : call_transform_ring(ring)
    \/ call_transform_geometry
    \/ \E fc \in Collections(geo.geometry) : call_transform_cadastre(fc)
    \/ call_again

SpecGeo == InitGeo /\ [][NextGeo]_vars

-----------------------------------------------------------------------------
(* Claims about calibrate_project, checked under Spec *)

Calibrated == last.op = "calibrate"

\* A key whose supplied value calibrate_project ought to refuse
FloatKeys == {"pixel_distance", "real_distance", "origin_x", "origin_y",
              "canvas_rotation", "asset_rotation", "ref_pixel_x", "ref_pixel_y"}
DistanceKeys == {"pixel_distance", "real_distance"}
InvalidValue(req, k) ==
    /\ Supplied(req, k)
    /\ \/ k \in FloatKeys /\ ~ParseFiniteFloat(req[k]).ok
       \/ k \in DistanceKeys /\ ParseFiniteFloat(req[k]).ok /\ ~FGt0(ParseFiniteFloat(req[k]).v)
       \/ k = "coord_unit" /\ ~(req[k].t = "str" /\ req[k].s \in COORD_UNIT_CHOICES)

\* Both distances supplied, finite and strictly positive
ValidScale(req) ==
    \A k \in DistanceKeys :
        Supplied(req, k) /\ ParseFiniteFloat(req[k]).ok /\ FGt0(ParseFiniteFloat(req[k]).v)

\* x = pd / rd exactly, for finite values, by cross-multiplication
IsQuotient(x, pd, rd) == IsFinite(x) /\ x.n * rd.n * pd.d = pd.n * rd.d * x.d

ScaleStored ==
    /\ IsQuotient(project.pixels_per_meter,
                  ParseFiniteFloat(last.req.pixel_distance).v,
                  ParseFiniteFloat(last.req.real_distance).v)
    /\ project.scale_calibrated

\* C2: a calibrate_project request answered 400 leaves the stored project
\* exactly as it was before the request.
C2_NoPartialCommit == (Calibrated /\ last.status = 400) => project = last.pre

\* C2 witness: a request refused after the handler had already set fields of
\* the instance it loaded.
C2_Witness ==
    /\ Calibrated /\ last.status = 400
    /\ RunCalibrate(last.pre, last.req).p # last.pre

\* C3 as stated: after every request whose two distances are supplied, finite
\* and strictly positive, pixels_per_meter is their exact quotient and
\* scale_calibrated is true.
C3_Original == (Calibrated /\ ValidScale(last.req)) => ScaleStored

\* C3 amended: the same, for the requests that are accepted (status 200).
C3_ScaleExact == (Calibrated /\ last.status = 200 /\ ValidScale(last.req)) => ScaleStored

\* C3 witness: an accepted scale calibration whose quotient is not a whole
\* number, on a project that held another scale.
C3_Witness ==
    /\ Calibrated /\ last.status = 200 /\ ValidScale(last.req)
    /\ project.pixels_per_meter = Fin(3, 2)
    /\ last.pre.pixels_per_meter # project.pixels_per_meter

\* The request keys that decide a stored field
KeysOf(field) ==
    IF field \in {"pixels_per_meter", "scale_calibrated"} THEN DistanceKeys ELSE {field}

\* C4: an accepted calibrate_project request leaves every calibration field
\* whose key is absent from the request (for the scale: either distance
\* absent) at the value it had before.
C4_AbsentFieldsKept ==
    (Calibrated /\ last.status = 200) =>
        \A f \in CalibFields :
            (\E k \in KeysOf(f) : ~Supplied(last.req, k)) => project[f] = last.pre[f]

\* C4 witness: an accepted request that changes one field of a project whose
\* other fields, absent from the request, hold values that are not defaults.
C4_Witness ==
    /\ Calibrated /\ last.status = 200
    /\ project # last.pre
    /\ ~Supplied(last.req, "origin_y") /\ last.pre.origin_y = Int2F(7)
    /\ ~Supplied(last.req, "ref_asset_id") /\ last.pre.ref_asset_id # <<>>
    /\ \E k \in DistanceKeys : ~Supplied(last.req, k)
    /\ last.pre.scale_calibrated

\* C5 as stated: a request that supplies an invalid value for any field is
\* refused, also when the field is one distance supplied without the other.
C5_EveryFieldValidated ==
    (Calibrated /\ \E k \in DOMAIN last.req : InvalidValue(last.req, k)) => last.status = 400

-----------------------------------------------------------------------------
(* Claims about the stored project, checked under SpecDb *)

\* C1 as stated: in every reachable state the pixels_per_meter of the stored
\* project is strictly greater than 0, whatever creations, calibrations,
\* updates and imports produced the state.
C1_ScalePositive == project.exists => FGt0(project.pixels_per_meter)

\* The operations on the rows of a project: none is a calibration call, none
\* is given a calibration field
OtherOps == {"create_asset", "delete_asset", "adjust_asset", "import_csv",
             "import_batch_delete"}

RefFields == {"ref_asset_id", "ref_pixel_x", "ref_pixel_y", "asset_rotation"}

Kept(fields) == \A f \in fields : project[f] = last.pre[f]

RefCleared ==
    /\ project.ref_asset_id = <<>>
    /\ \A f \in RefFields \ {"ref_asset_id"} : project[f] = Int2F(0)

\* C6 as stated: no operation other than a calibration call changes a
\* calibration field; deleting an import batch, importing CSV data and
\* adjusting an asset leave all of them unchanged.
C6_Original == last.op \in OtherOps => Kept(CalibFields)

\* C6 amended: importing CSV data, adjusting, creating and deleting an asset
\* change no calibration field; deleting an import batch never changes the
\* scale, the origin, the canvas rotation or the unit, and it resets the
\* reference (asset id, pixel, asset rotation) exactly when the project is
\* left without assets; an accepted project update is the one other writer.
C6_OnlyCalibrationAndReset ==
    /\ last.op \in {"import_csv", "adjust_asset", "create_asset", "delete_asset"}
          => Kept(CalibFields)
    /\ last.op = "import_batch_delete"
          => /\ Kept(CalibFields \ RefFields)
             /\ IF Existing(assets) = {} THEN RefCleared ELSE Kept(RefFields)
    /\ (last.op = "update_project" /\ last.status # 200) => Kept(CalibFields)

\* C6 witness: the last batch of a calibrated project is deleted; the
\* reference it held is reset and its scale stays.
C6_Witness ==
    /\ last.op = "import_batch_delete"
    /\ Existing(assets) = {}
    /\ last.pre.ref_asset_id = A1 /\ last.pre.asset_rotation = Int2F(45)
    /\ project.ref_asset_id = <<>>
    /\ project.pixels_per_meter = Fin(3, 2)

-----------------------------------------------------------------------------
(* Claims about the projection, checked under SpecGeo *)

RingCalled == geo.called = "transform_ring"
GeometryCalled == geo.called = "transform_geometry"
CadastreCalled == geo.called = "transform_cadastre_to_project_coords"

\* A scale that is zero, negative, infinite or NaN
BadScale(ppm) == ~IsFinite(ppm) \/ FLe0(ppm)
GoodScale(ppm) == IsFinite(ppm) /\ FGt0(ppm)

FiniteRing(ring) == \A i \in 1..Len(ring) : IsFinite(ring[i][1]) /\ IsFinite(ring[i][2])
FinitePolygon(rings) == \A i \in 1..Len(rings) : FiniteRing(rings[i])
FiniteGeometry(g) ==
    CASE g.type = "Polygon" -> FinitePolygon(g.coordinates)
      [] g.type = "MultiPolygon" ->
            \A q \in 1..Len(g.coordinates) : FinitePolygon(g.coordinates[q])
      [] OTHER -> TRUE

\* C7 as stated: a projection under a scale that is zero, negative or
\* non-finite raises an error, and no projection of finite geographic input
\* returns a NaN or an infinite pixel coordinate.
C7_BadScaleFails ==
    /\ (geo.called # "none" /\ BadScale(geo.args.ppm)) => geo.raised
    /\ RingCalled => FiniteRing(geo.out)
    /\ GeometryCalled => FiniteGeometry(geo.out)
    /\ CadastreCalled => \A i \in 1..Len(geo.out) : FiniteGeometry(geo.out[i].geometry)

C9_NoAxisMixing ==
    (RingCalled /\ geo.args.asset_rotation_deg = Int2F(0)) =>
        /\ \A i \in 1..Len(geo.ring) :
              /\ geo.out[i][1] =
                    FAdd(geo.args.ref_pixel_x,
                         FMul(MetersX(FSub(geo.ring[i][1], geo.args.ref_lon), geo.args.ref_lat),
                              geo.args.ppm))
              /\ geo.out[i][2] =
                    FAdd(geo.args.ref_pixel_y,
                         FMul(MetersY(FSub(geo.ring[i][2], geo.args.ref_lat)), geo.args.ppm))
        /\ \A i, j \in 1..Len(geo.ring) :
              /\ geo.ring[i][1] = geo.ring[j][1] => geo.out[i][1] = geo.out[j][1]
              /\ geo.ring[i][2] = geo.ring[j][2] => geo.out[i][2] = geo.out[j][2]

\* C9 witness: an unrotated projection of a ring with two points of one
\* longitude and two latitudes, and two points of one latitude and two
\* longitudes, none of them at the reference pixel twice.
C9_Witness ==
    /\ RingCalled /\ geo.args.asset_rotation_deg = Int2F(0) /\ GoodScale(geo.args.ppm)
    /\ \E i, j \in 1..Len(geo.ring) :
          /\ geo.ring[i][1] = geo.ring[j][1] /\ geo.ring[i][2] # geo.ring[j][2]
          /\ geo.out[i][2] # geo.out[j][2]
    /\ \E i, j \in 1..Len(geo.ring) :
          /\ geo.ring[i][2] = geo.ring[j][2] /\ geo.ring[i][1] # geo.ring[j][1]
          /\ geo.out[i][1] # geo.out[j][1]

\* The output rings are the input rings in their order, each output point
\* the projection of the input point at its position
SamePolygon(rings, out) ==
    /\ Len(out) = Len(rings)
    /\ \A i \in 1..Len(rings) :
          /\ Len(out[i]) = Len(rings[i])
          /\ \A j \in 1..Len(rings[i]) :
                out[i][j] = TransformPoint(rings[i][j], geo.args.ref_lat, geo.args.ref_lon,
                                           geo.args.ref_pixel_x, geo.args.ref_pixel_y,
                                           geo.args.ppm, geo.args.asset_rotation_deg)

\* C10: transform_geometry of a Polygon or a MultiPolygon returns the same
\* type, the same number of polygons, the same number of rings per polygon
\* in the same order, and in each ring the same number of points in the same
\* order.
C10_StructurePreserved ==
    (GeometryCalled /\ geo.geometry.type \in {"Polygon", "MultiPolygon"}) =>
        /\ geo.out.type = geo.geometry.type
        /\ IF geo.geometry.type = "Polygon"
           THEN SamePolygon(geo.geometry.coordinates, geo.out.coordinates)
           ELSE /\ Len(geo.out.coordinates) = Len(geo.geometry.coordinates)
                /\ \A q \in 1..Len(geo.geometry.coordinates) :
                      SamePolygon(geo.geometry.coordinates[q], geo.out.coordinates[q])

\* C10 witness: the projection of a polygon with a hole, its two rings of
\* different lengths.
C10_Witness ==
    /\ GeometryCalled /\ geo.geometry = HoledPolygon /\ GoodScale(geo.args.ppm)
    /\ Len(geo.out.coordinates) = 2
    /\ Len(geo.out.coordinates[1]) = MaxPoints
    /\ Len(geo.out.coordinates[2]) = MaxPoints - 1
    /\ geo.out.coordinates # geo.geometry.coordinates

\* A project with a scale greater than 0 whose reference asset exists
ValidCalibration ==
    project.exists /\ RefAsset(project, assets) # 0 /\ FGt0(project.pixels_per_meter)

IsProjectable(feature) ==
    feature.geometry # NoGeometry /\ feature.geometry.type \in {"Polygon", "MultiPolygon"}

\* The features given whose geometry is a Polygon or a MultiPolygon, in order
Projectable == SelectSeq(geo.original.features, IsProjectable)

\* C11: under a valid calibration transform_cadastre_to_project_coords
\* returns one feature for each input feature whose geometry is a Polygon or
\* a MultiPolygon, in input order, none for any other feature, and does not
\* fail; the output is no longer than the input.
C11_OneFeaturePerPolygon ==
    (CadastreCalled /\ ValidCalibration) =>
        /\ ~geo.raised
        /\ Len(geo.out) = Len(Projectable)
        /\ Len(geo.out) <= Len(geo.original.features)
        /\ \A i \in 1..Len(Projectable) :
              geo.out[i].geometry =
                 transform_geometry(Projectable[i].geometry,
                                    current_y(assets[RefAsset(project, assets)]),
                                    current_x(assets[RefAsset(project, assets)]),
                                    project.ref_pixel_x, project.ref_pixel_y,
                                    project.pixels_per_meter, project.asset_rotation)

\* C11 witness: a collection of four features, one of them a point, returns
\* three features, the first two of different geometries.
C11_Witness ==
    /\ CadastreCalled /\ ValidCalibration
    /\ Len(geo.original.features) = 4
    /\ Len(geo.out) = 3
    /\ geo.out[1].geometry # geo.out[2].geometry

\* C12: every feature returned carries the properties of the input feature
\* it was projected from, unmodified (an empty mapping for a feature that
\* has none).
C12_PropertiesPassedThrough ==
    CadastreCalled =>
        \A i \in 1..Len(geo.out) :
            geo.out[i].properties =
                (IF Projectable[i].has_properties THEN Projectable[i].properties ELSE {})

\* C12 witness: two returned features with different properties, one of two
\* keys.
C12_Witness ==
    /\ CadastreCalled
    /\ Len(geo.out) >= 2
    /\ geo.out[1].properties = {<<"lot", "1">>, <<"plan", "RP1">>}
    /\ geo.out[2].properties = {<<"lot", "2">>}

-----------------------------------------------------------------------------
\* _parse_finite_float on its own: one call for each value a JSON body can
\* hold under each of the names calibrate_project passes

NumF(v) == [t |-> "num", v |-> v, s |-> ""]

ParseValues ==
    {None, Other, Huge, TrueValue, Str("abc"), Str("")}
        \cup {Str(s) : s \in FloatStrings}
        \cup {NumF(v) : v \in {Int2F(12), Fin(-3, 2), Int2F(0), NaN, PInf, NInf}}

ParseNames ==
    {"pixel_distance", "real_distance", "origin_x", "origin_y",
     "canvas_rotation", "asset_rotation", "ref_pixel_x", "ref_pixel_y"}

ParseCall(value, name) == [called |-> FALSE, value |-> value, name |-> name]

InitParse ==
    /\ \E value \in ParseValues, name \in ParseNames : parse = ParseCall(value, name)
    /\ project = NoProject
    /\ assets = [a \in AssetPks |-> NoAsset]
    /\ batches = [b \in BatchPks |-> NoBatch]
    /\ groups = [g \in GroupPks |-> NoGroup]
    /\ logs = <<>>
    /\ assetTypes = {"pole"}
    /\ last = Idle
    /\ geo = NoGeo
    /\ threads = NoThreads
    /\ links = [l \in LinkPks |-> NoLink]
    /\ trip = NoTrip
    /\ naming = NoNaming
    /\ deletes = NoDeletes
    /\ storage = NoStorage
    /\ sheets = NoSheets
    /\ parent_group = NoJoinable

call_parse_finite_float ==
    /\ ~parse.called
    /\ parse' = [called |-> TRUE, value |-> parse.value, name |-> parse.name,
                 result |-> parse_finite_float(parse.value, parse.name)]
    /\ UNCHANGED <<project, rows, last, geo, threads, links, trip, parent_group, sheets, storage, deletes, naming>>

NextParse == call_parse_finite_float

SpecParse == InitParse /\ [][NextParse]_vars

\* The input is one float() turns into a finite number
ParsesFinite(value) == PyFloat(value).ok /\ IsFinite(PyFloat(value).v)

\* C14: _parse_finite_float returns a finite number for every input that parses
\* as a finite number, fails with an error naming the field for every other
\* input, and never returns a non-finite value
C14_FiniteOrNamedError ==
    parse.called =>
        IF ParsesFinite(parse.value)
        THEN parse.result.raised = "" /\ IsFinite(parse.result.v)
        ELSE parse.result.raised # "" /\ parse.result.field = parse.name
-----------------------------------------------------------------------------
\* The unit a calibrate_project request supplies is one of the model's choices
ValidUnit(req) == req.coord_unit.t = "str" /\ req.coord_unit.s \in COORD_UNIT_CHOICES

\* C15: calibrate_project accepts a supplied coord_unit only if it is one of
\* meters, degrees, gda94_geo and gda94_mga, and then stores it; any other
\* supplied value is answered with an error and the stored unit is kept
C15_CoordUnitValidated ==
    (Calibrated /\ Supplied(last.req, "coord_unit")) =>
        IF ValidUnit(last.req)
        THEN last.status = 200 => project.coord_unit = last.req.coord_unit.s
        ELSE /\ last.status = 400
             /\ project.coord_unit = last.pre.coord_unit

\* A project whose unit was set to degrees refuses the unit feet and stays in
\* degrees, in a request nothing else of which is refused
C15_Witness ==
    /\ Calibrated
    /\ Supplied(last.req, "coord_unit")
    /\ last.req.coord_unit.s = "feet"
    /\ \A k \in DOMAIN last.req : k = "coord_unit" \/ ~InvalidValue(last.req, k)
    /\ last.status = 400
    /\ last.pre.coord_unit = "degrees"
    /\ project.coord_unit = "degrees"
-----------------------------------------------------------------------------
\* C16: a project created from a name alone has pixels_per_meter = 100.0,
\* origin_x = 0, origin_y = 0, canvas_rotation = 0, asset_rotation = 0,
\* ref_asset_id = '' and scale_calibrated = false, whatever the project
\* deleted before it held
C16_NewProjectDefaults ==
    last.op = "create" =>
        /\ project.exists
        /\ project.pixels_per_meter = Int2F(100)
        /\ project.origin_x = Int2F(0)
        /\ project.origin_y = Int2F(0)
        /\ project.canvas_rotation = Int2F(0)
        /\ project.asset_rotation = Int2F(0)
        /\ project.ref_asset_id = <<>>
        /\ project.scale_calibrated = FALSE

\* A project has just been created
C16_Witness == last.op = "create" /\ last.status = 201 /\ project.exists
-----------------------------------------------------------------------------
\* Two calibrate_project requests served at once on one project, each by its
\* own worker.  The handler holds no lock and opens no transaction: it loads
\* the row (get_object_or_404), mutates its own instance, and project.save()
\* writes every column of that instance back.

Workers == {1, 2}

SuppliedKeys(req) == {k \in DOMAIN req : Supplied(req, k)}

\* The requests of at most two fields, in pairs that share no field
ConcRequests == {req \in CalibRequests : Cardinality(SuppliedKeys(req)) \in {1, 2}}
ConcPairs ==
    {pair \in ConcRequests \X ConcRequests :
        SuppliedKeys(pair[1]) \cap SuppliedKeys(pair[2]) = {}}

Worker(req) == [pc |-> "start", req |-> req, instance |-> NoProject, status |-> 0]

InitConc ==
    /\ \E pair \in ConcPairs : threads = [t \in Workers |-> Worker(pair[t])]
    /\ project = DefaultProject
    /\ assets = [a \in AssetPks |-> NoAsset]
    /\ batches = [b \in BatchPks |-> NoBatch]
    /\ groups = [g \in GroupPks |-> NoGroup]
    /\ logs = <<>>
    /\ assetTypes = {}
    /\ last = Idle
    /\ geo = NoGeo
    /\ parse = NoParse
    /\ links = [l \in LinkPks |-> NoLink]
    /\ trip = NoTrip
    /\ naming = NoNaming
    /\ deletes = NoDeletes
    /\ storage = NoStorage
    /\ sheets = NoSheets
    /\ parent_group = NoJoinable

\* line 352: project = get_object_or_404(Project, pk=pk)
calibrate_load(t) ==
    /\ threads[t].pc = "start"
    /\ project.exists
    /\ threads' = [threads EXCEPT ![t].pc = "loaded", ![t].instance = project]
    /\ UNCHANGED <<project, rows, last, geo, parse, links, trip, parent_group, sheets, storage, deletes, naming>>

\* lines 354-426: the fields are set on the instance loaded and the instance
\* is saved whole
calibrate_save(t) ==
    /\ threads[t].pc = "loaded"
    /\ LET r == RunCalibrate(threads[t].instance, threads[t].req)
       IN  /\ project' = CalibratePersist(project, r)
           /\ threads' = [threads EXCEPT ![t].pc = "done", ![t].status = r.status]
    /\ UNCHANGED <<rows, last, geo, parse, links, trip, parent_group, sheets, storage, deletes, naming>>

NextConc ==
    \/ \E t \in Workers : calibrate_load(t)
    \/ \E t \in Workers : calibrate_save(t)

SpecConc == InitConc /\ [][NextConc]_vars

\* Every field the request supplies holds the value the request gives it:
\* the request applied to the row would change nothing
HoldsUpdate(p, req) == RunCalibrate(p, req).p = p

\* C17: two concurrent calibrate_project requests on one project that supply
\* disjoint sets of fields lose neither update: once both have completed,
\* every field either request supplied holds the value it supplied
C17_NoLostUpdate ==
    (\A t \in Workers : threads[t].pc = "done" /\ threads[t].status = 200) =>
        \A t \in Workers : HoldsUpdate(project, threads[t].req)
-----------------------------------------------------------------------------
\* import_assets_from_csv over more files and column mappings

\* The rows of tests/test_services.py: a header of name and type, or of name
NameTypeRow(name, type) == [name |-> name, type |-> type]

CsvFiles ==
    DbCsvFiles \cup
    {CsvFile({"name", "type"}, <<NameTypeRow("Asset 1", "pole"), NameTypeRow("Asset 2", "pole")>>),
     CsvFile({"name", "type"}, <<NameTypeRow("Asset 1", "pole")>>),
     CsvFile({"name"}, <<[name |-> "Asset 1"]>>),
     CsvFile(AllColumns, <<CsvRow(A1, "pole", "-3"), CsvRow(A2, "Pole", "0")>>),
     CsvFile(AllColumns, <<CsvRow(A1, "pole", "-3"), CsvRow(A1, "pole", "0")>>),
     EmptyCsvFile}

\* column_mapping: roles sent to a column the header lacks (Easting, type,
\* label), to one it has (y), or to none
CsvMappings ==
    {NoMapping, [x |-> "Easting"], [x |-> "y"], [asset_type |-> "type"],
     [name |-> "label"], [asset_id |-> ""]}

NextCsv ==
    \/ create_project
    \/ \E id \in AssetIds : create_asset(id, "pole")
    \/ \E file \in CsvFiles, mapping \in CsvMappings, fixed \in {"", "pole"} :
          import_csv(file, mapping, fixed)
    \/ \E b \in BatchPks : import_batch_delete(b)
    \/ respond

SpecCsv == Init /\ [][NextCsv]_vars

Imported == last.op = "import_csv"

\* The rows of a table that exist
Count(tbl) == Cardinality({k \in DOMAIN tbl : tbl[k].exists})

\* The call of test_import_valid_csv: no mapping, a header of name and type,
\* every row naming an asset type there is, on a project with no asset and
\* no batch yet
NameTypeCall(call) ==
    /\ call.column_mapping = NoMapping
    /\ call.fixed_asset_type = ""
    /\ call.file.header
    /\ call.file.columns = {"name", "type"}
    /\ \A i \in DOMAIN call.file.rows : call.file.rows[i].type \in call.before.assetTypes
    /\ Count(call.before.assets) = 0
    /\ Count(call.before.batches) = 0

\* C18: import_assets_from_csv without a column mapping, on a CSV whose header
\* has only the columns name and type and whose N rows each name an existing
\* asset type, succeeds and leaves N assets and exactly one import batch
C18_NameTypeImportSucceeds ==
    (Imported /\ NameTypeCall(last.req)) =>
        /\ last.req.raised = ""
        /\ Count(assets) = Len(last.req.file.rows)
        /\ Count(batches) = 1

\* A required role is mapped to a column that is not in the header
RoleUnmatched(call) ==
    \E role \in RequiredRoles(call.fixed_asset_type) :
        MergedMapping(call.column_mapping)[role] \notin call.file.columns

\* C19: import_assets_from_csv raises ValueError whenever a required role
\* (asset_id, x, y, and asset_type unless a fixed asset type is given) is
\* mapped to a column that is not in the CSV header, and then creates no
\* import batch, no layer group and no asset
C19_MissingColumnRaises ==
    (Imported /\ RoleUnmatched(last.req)) =>
        /\ last.req.raised = "ValueError"
        /\ assets = last.req.before.assets
        /\ batches = last.req.before.batches
        /\ groups = last.req.before.groups
-----------------------------------------------------------------------------
(* Links, export_project_with_sqlite and the import of the exported file *)

\* The link ids the model creates, in the order of Link.Meta.ordering
LinkIds == <<"L1", "L2">>

HasLinkId(tbl, id) == \E k \in DOMAIN tbl : tbl[k].exists /\ tbl[k].link_id = id

\* LinkListCreate (POST): the serializer holds project read-only, so the pair
\* (project, link_id) is checked by the database alone and a second link of
\* the same id ends in an IntegrityError
create_link(id, batch) ==
    /\ last.op = "idle"
    /\ project.exists
    /\ FreePks(links) # {}
    /\ IF batch = 0 THEN TRUE ELSE batches[batch].exists
    /\ IF HasLinkId(links, id)
       THEN /\ UNCHANGED links
            /\ last' = Last("create_link", 500, EmptyReq, project)
       ELSE /\ links' = [links EXCEPT ![Min(FreePks(links))] =
                            [exists |-> TRUE, link_id |-> id,
                             import_batch |-> batch, layer_group |-> 0]]
            /\ last' = Last("create_link", 201, EmptyReq, project)
    /\ UNCHANGED <<project, rows, calls>>

\* The keys of a set in ascending order: the rows of a queryset, whose order
\* decides nothing but the keys the imported rows get
RECURSIVE PkSeq(_)
PkSeq(S) == IF S = {} THEN <<>> ELSE <<Min(S)>> \o PkSeq(S \ {Min(S)})

\* The place in the exported list of the row a foreign key names (0: NULL)
Position(seq, pk) == IF pk = 0 THEN 0 ELSE CHOOSE i \in 1..Len(seq) : seq[i] = pk

\* lines 297-310: the project's fields as JSON values
ExportProject(p) ==
    [f \in CalibFields |->
        CASE f \in PatchFloatFields -> NumF(p[f])
          [] f = "scale_calibrated" -> Bool(p[f])
          [] f = "coord_unit" -> Str(p[f])
          [] f = "ref_asset_id" -> IdStr(p[f])]

\* Only the assets that came with an import batch
ExportAssetsOfBatches(tbl, batchSeq, groupSeq) ==
    LET pks == PkSeq({k \in Existing(tbl) : tbl[k].import_batch # 0})
    IN  [i \in 1..Len(pks) |->
            LET a == tbl[pks[i]]
            IN  [asset_id |-> a.asset_id, asset_type_name |-> a.asset_type,
                 import_batch |-> Position(batchSeq, a.import_batch),
                 layer_group |-> Position(groupSeq, a.layer_group),
                 original_x |-> a.original_x, original_y |-> a.original_y,
                 adjusted_x |-> a.adjusted_x, adjusted_y |-> a.adjusted_y,
                 is_adjusted |-> a.is_adjusted]]

\* lines 393-410: one entry for each asset of the project
ExportAssets(tbl, batchSeq, groupSeq) ==
    LET pks == PkSeq(Existing(tbl))
    IN  [i \in 1..Len(pks) |->
            LET a == tbl[pks[i]]
            IN  [asset_id |-> a.asset_id, asset_type_name |-> a.asset_type,
                 import_batch |-> Position(batchSeq, a.import_batch),
                 layer_group |-> Position(groupSeq, a.layer_group),
                 original_x |-> a.original_x, original_y |-> a.original_y,
                 adjusted_x |-> a.adjusted_x, adjusted_y |-> a.adjusted_y,
                 is_adjusted |-> a.is_adjusted]]

\* lines 412-427: one entry for each link of the project, by link_id
ExportLinks(tbl, batchSeq, groupSeq) ==
    LET ids == SelectSeq(LinkIds, LAMBDA id : HasLinkId(tbl, id))
    IN  [i \in 1..Len(ids) |->
            LET l == tbl[CHOOSE k \in DOMAIN tbl : tbl[k].exists /\ tbl[k].link_id = ids[i]]
            IN  [link_id |-> l.link_id,
                 import_batch |-> Position(batchSeq, l.import_batch),
                 layer_group |-> Position(groupSeq, l.layer_group)]]

\* lines 297-470: the export_data written to project.db
ExportFile(p, assetTbl, batchTbl, groupTbl, linkTbl) ==
    LET batchSeq == PkSeq(Existing(batchTbl))
        groupSeq == PkSeq(Existing(groupTbl))
    IN  [project |-> ExportProject(p),
         asset_types |-> {assetTbl[k].asset_type : k \in Existing(assetTbl)},
         import_batches |-> [i \in 1..Len(batchSeq) |-> batchTbl[batchSeq[i]].asset_count],
         layer_groups |-> Len(groupSeq),
         assets |-> ExportAssets(assetTbl, batchSeq, groupSeq),
         links |-> ExportLinks(linkTbl, batchSeq, groupSeq)]

\* export_project_with_sqlite (GET): the file is answered and nothing is
\* written; exported keeps the number of assets and of links the project had
export_project_with_sqlite ==
    /\ last.op = "idle"
    /\ project.exists
    /\ trip.stage = "none"
    /\ trip' = [stage |-> "exported",
                file |-> ExportFile(project, assets, batches, groups, links),
                exported |-> [assets |-> Cardinality(Existing(assets)),
                              links |-> Cardinality(Existing(links))]]
    /\ last' = Last("export_project", 200, EmptyReq, project)
    /\ UNCHANGED <<project, rows, links, geo, parse, threads, parent_group, sheets, storage, deletes, naming>>

\* lines 614-819: the rows of the project the import creates
CreateProjectFromData(file) ==
    [project |-> FileProject(file.project), assets |-> FileAssets(file),
     batches |-> FileBatches(file), groups |-> FileGroups(file),
     links |-> FileLinks(file)]

\* import_project on the exported file (project.db: _import_project_sqlite).
\* The project is created beside the exported one, under a name made unique,
\* and its rows are kept in created; 500 and no row for an exception.
import_project_sqlite ==
    /\ last.op = "idle"
    /\ trip.stage = "exported"
    /\ LET ok == ImportOk(trip.file)
       IN  /\ trip' = [stage |-> "imported", file |-> trip.file, exported |-> trip.exported,
                       status |-> IF ok THEN 200 ELSE 500,
                       created |-> IF ok THEN CreateProjectFromData(trip.file)
                                   ELSE [project |-> NoProject]]
           /\ assetTypes' = IF ok THEN assetTypes \cup FileTypes(trip.file) ELSE assetTypes
           /\ last' = Last("import_project", IF ok THEN 200 ELSE 500, EmptyReq, project)
    /\ UNCHANGED <<project, assets, batches, groups, logs, links, geo, parse, threads, parent_group, sheets, storage, deletes, naming>>

\* The project is calibrated by one request, assets come from one file of one
\* row or are created one by one, and one asset is adjusted
TripRequest ==
    [EmptyReq EXCEPT !.ref_asset_id = IdStr(A1), !.pixel_distance = Num(3),
                     !.real_distance = Num(2), !.coord_unit = Str("degrees")]
TripCsvFile == CsvFile(AllColumns, <<CsvRow(A1, "pole", "inf")>>)

NextTrip ==
    \/ create_project
    \/ calibrate_project(TripRequest)
    \/ create_asset(A2, "pole")
    \/ import_csv(TripCsvFile, NoMapping, "")
    \/ Len(logs) < MaxLogs /\ adjust_asset(1, Num(5), Num(7))
    \/ \E id \in {LinkIds[1], LinkIds[2]}, b \in {0, 1} : create_link(id, b)
    \/ \E b \in BatchPks : import_batch_delete(b)
    \/ export_project_with_sqlite
    \/ import_project_sqlite
    \/ respond

SpecTrip == Init /\ [][NextTrip]_vars

\* C20: exporting any project with export_project_with_sqlite and importing
\* the resulting file with import_project succeeds and creates a new project
\* with as many assets and as many links as the exported project had
C20_RoundTripCounts ==
    trip.stage = "imported" =>
        /\ trip.status = 200
        /\ trip.created.project.exists
        /\ Count(trip.created.assets) = trip.exported.assets
        /\ Count(trip.created.links) = trip.exported.links

\* A project of two assets, of which one without a batch, and a link has been
\* exported and imported
C20_Witness ==
    /\ trip.stage = "imported"
    /\ trip.exported.assets = 2
    /\ trip.exported.links >= 1
    /\ \E i \in 1..Len(trip.file.assets) : trip.file.assets[i].import_batch = 0
    /\ \E i \in 1..Len(trip.file.assets) : trip.file.assets[i].import_batch # 0
    /\ trip.status = 200
-----------------------------------------------------------------------------
(* join_groups and unjoin_group: the parent_group column of LayerGroup *)

\* Bound: the layer groups of the project
MaxJoinable == 3
JoinablePks == 1..MaxJoinable

\* A pk as request.data carries it: a JSON number or a string of digits
PkNumber(pk) == [pk |-> pk, str |-> FALSE]
PkString(pk) == [pk |-> pk, str |-> TRUE]
RequestPks == {PkNumber(pk) : pk \in JoinablePks} \cup {PkString(pk) : pk \in JoinablePks}
                 \cup {PkNumber(0)}

\* The groups exist from the start, each of one group_type and without parent
InitGroups ==
    /\ \E types \in [JoinablePks -> {"asset", "link"}] :
          parent_group = [g \in JoinablePks |-> [group_type |-> types[g], parent |-> 0]]
    /\ project = DefaultProject
    /\ assets = [a \in AssetPks |-> NoAsset]
    /\ batches = [b \in BatchPks |-> NoBatch]
    /\ groups = [g \in GroupPks |-> NoGroup]
    /\ logs = <<>>
    /\ assetTypes = {}
    /\ last = Idle
    /\ geo = NoGeo
    /\ parse = NoParse
    /\ threads = NoThreads
    /\ links = [l \in LinkPks |-> NoLink]
    /\ trip = NoTrip
    /\ naming = NoNaming
    /\ deletes = NoDeletes
    /\ storage = NoStorage
    /\ sheets = NoSheets

\* lines 593-598: the join is refused for a group joined to itself (the two
\* values of the request compared as they came) and for a parent whose own
\* parent is the child
JoinRefused(tbl, parent_id, child_id) ==
    \/ parent_id = child_id
    \/ tbl[parent_id.pk].parent = child_id.pk

\* join_groups (POST)
join_groups(parent_id, child_id) ==
    /\ last.op = "idle"
    /\ IF parent_id.pk = 0 \/ child_id.pk = 0
       THEN /\ UNCHANGED parent_group
            /\ last' = Last("join_groups", 400, EmptyReq, project)
       ELSE IF parent_group[parent_id.pk].group_type # parent_group[child_id.pk].group_type
               \/ JoinRefused(parent_group, parent_id, child_id)
       THEN /\ UNCHANGED parent_group
            /\ last' = Last("join_groups", 400, EmptyReq, project)
       ELSE /\ parent_group' = [parent_group EXCEPT ![child_id.pk].parent = parent_id.pk]
            /\ last' = Last("join_groups", 200, EmptyReq, project)
    /\ UNCHANGED <<project, rows, links, geo, parse, threads, trip, sheets, storage, deletes, naming>>

\* unjoin_group (POST)
unjoin_group(pk) ==
    /\ last.op = "idle"
    /\ IF parent_group[pk].parent = 0
       THEN /\ UNCHANGED parent_group
            /\ last' = Last("unjoin_group", 400, EmptyReq, project)
       ELSE /\ parent_group' = [parent_group EXCEPT ![pk].parent = 0]
            /\ last' = Last("unjoin_group", 200, EmptyReq, project)
    /\ UNCHANGED <<project, rows, links, geo, parse, threads, trip, sheets, storage, deletes, naming>>

NextGroups ==
    \/ \E parent_id \in RequestPks, child_id \in RequestPks : join_groups(parent_id, child_id)
    \/ \E pk \in JoinablePks : unjoin_group(pk)
    \/ respond

SpecGroups == InitGroups /\ [][NextGroups]_vars

\* The group reached from g by n steps to the parent (0: beyond a top-level group)
RECURSIVE Ancestor(_, _, _)
Ancestor(tbl, g, n) ==
    IF g = 0 \/ n = 0 THEN g ELSE Ancestor(tbl, tbl[g].parent, n - 1)

\* C21: after any sequence of join_groups and unjoin_group calls starting from
\* groups without parents, no group is its own ancestor
C21_NoCycle ==
    parent_group # NoJoinable =>
        \A g \in DOMAIN parent_group :
            \A n \in 1..Cardinality(DOMAIN parent_group) : Ancestor(parent_group, g, n) # g
-----------------------------------------------------------------------------
(* adjust_asset called again and again on one asset *)

\* Bound: the adjustments logged
MaxChain == 3

\* The asset comes from an imported project file: never adjusted, adjusted
\* before the export (the file holds is_adjusted and the adjusted position,
\* and no adjustment log), or marked adjusted without a position
AdjustFiles ==
    {File(<<>>, <<>>, <<FileAsset(A1, 0)>>),
     File(<<>>, <<>>, <<[FileAsset(A1, 0) EXCEPT !.is_adjusted = TRUE,
                                               !.adjusted_x = Int2F(5),
                                               !.adjusted_y = Int2F(7)]>>),
     File(<<>>, <<>>, <<[FileAsset(A1, 0) EXCEPT !.is_adjusted = TRUE]>>)}

AdjustValues == {Num(5), Num(9), None, Str("abc")}

NextAdjust ==
    \/ \E file \in AdjustFiles : import_project(file)
    \/ \E pk \in AssetPks, rx \in AdjustValues, ry \in {Num(7), Num(-3)} :
          Len(logs) < MaxChain /\ adjust_asset(pk, rx, ry)
    \/ respond

SpecAdjust == Init /\ [][NextAdjust]_vars

\* The logs of one asset, oldest first
LogsFor(pk) == SelectSeq(logs, LAMBDA l : l.asset = pk)

AdjustedOk == last.op = "adjust_asset" /\ last.status = 200

\* The log the request appended: one log, from the position before the
\* request to the position after it, and the asset is marked adjusted
LogAppended ==
    LET c == last.req
        a == assets[c.pk]
        l == logs[Len(logs)]
    IN  /\ Len(logs) = c.logs + 1
        /\ l.asset = c.pk
        /\ l.from_x = current_x(c.before) /\ l.from_y = current_y(c.before)
        /\ l.to_x = current_x(a) /\ l.to_y = current_y(a)
        /\ a.is_adjusted

\* Each log of an asset starts where the log before it ended
Chained ==
    \A pk \in AssetPks :
        \A i \in 2..Len(LogsFor(pk)) :
            /\ LogsFor(pk)[i].from_x = LogsFor(pk)[i - 1].to_x
            /\ LogsFor(pk)[i].from_y = LogsFor(pk)[i - 1].to_y

\* The first log of the asset starts at the original position
FirstFromOriginal ==
    LET c == last.req
        l == logs[Len(logs)]
    IN  Len(LogsFor(c.pk)) = 1 =>
            l.from_x = c.before.original_x /\ l.from_y = c.before.original_y

\* C22 as stated: each successful adjust_asset appends one log from the
\* current position before the call to the current position after it and sets
\* is_adjusted; each log starts where the previous one ended, and the first
\* log starts at the original position
C22_Original == Chained /\ (AdjustedOk => LogAppended /\ FirstFromOriginal)

\* C22: as stated, but the first log starts at the original position only
\* for an asset that was not adjusted before its first call
C22_LogChain ==
    /\ Chained
    /\ AdjustedOk => /\ LogAppended
                     /\ ~last.req.before.is_adjusted => FirstFromOriginal

\* A third adjustment of an asset has been logged, to another position than
\* the one before
C22_Witness ==
    /\ AdjustedOk
    /\ Len(LogsFor(last.req.pk)) = 3
    /\ logs[3].to_x # logs[2].to_x
    /\ ~(logs[1].from_x = assets[last.req.pk].original_x)
-----------------------------------------------------------------------------
(* import_batch_delete, checked under SpecDb *)

BatchDeleted == last.op = "import_batch_delete"

\* The assets of the deleted batch before the request
AssetsOfDeleted ==
    {k \in AssetPks : /\ last.req.before.assets[k].exists
                      /\ last.req.before.assets[k].import_batch = last.req.b}

\* C23: deleting an import batch deletes the batch and every asset of it (and
\* no other asset); the reference calibration is reset to ('', 0, 0, 0) when
\* no asset is left and is unchanged otherwise; the scale, the origin, the
\* canvas rotation and the unit are not changed.
C23_BatchDelete ==
    BatchDeleted =>
        /\ last.req.before.batches[last.req.b].exists
        /\ ~batches[last.req.b].exists
        /\ \A b \in BatchPks \ {last.req.b} : batches[b] = last.req.before.batches[b]
        /\ \A k \in AssetsOfDeleted : ~assets[k].exists
        /\ \A k \in AssetPks \ AssetsOfDeleted : assets[k] = last.req.before.assets[k]
        /\ IF Existing(assets) = {} THEN RefCleared ELSE Kept(RefFields)
        /\ Kept({"pixels_per_meter", "origin_x", "origin_y", "canvas_rotation", "coord_unit"})

\* A batch is deleted with an asset of it while an asset outside it remains,
\* and the reference the project held is still there
C23_Witness ==
    /\ BatchDeleted
    /\ AssetsOfDeleted # {}
    /\ Existing(assets) # {}
    /\ last.pre.ref_asset_id # <<>>
    /\ project.ref_asset_id = last.pre.ref_asset_id
-----------------------------------------------------------------------------
(* The reference asset of a project, checked under SpecDb *)

\* C24 as stated: in every reachable state the ref_asset_id of a project is
\* empty or is the asset_id of an asset that exists in the project.
C24_RefAssetExists ==
    (project.exists /\ project.ref_asset_id # <<>>)
        => \E k \in AssetPks : /\ assets[k].exists
                               /\ assets[k].asset_id = project.ref_asset_id
-----------------------------------------------------------------------------
(* Sheets: upload, split_sheet and Sheet.delete.  The sheets belong to the  *)
(* one project of the model; the rendered image of a sheet is left out.     *)

SheetsWith(tbl, path) == {s \in SheetPks : tbl[s].exists /\ tbl[s].pdf_file = path}

\* str(n).zfill(width) for the page counts drawn here (width 1)
PageDigits == <<"1", "2", "3">>
PageName(base, n) == <<base, "-", PageDigits[n]>>

\* lines 88-98: a sheet for each of the pages from page to page_count, all on
\* the PDF file of the first sheet, the other columns at their defaults
RECURSIVE CreatePages(_, _, _, _)
CreatePages(tbl, path, page, page_count) ==
    IF page > page_count THEN tbl
    ELSE CreatePages([tbl EXCEPT ![Min(FreePks(tbl))] =
                         [NoSheet EXCEPT !.exists = TRUE,
                                         !.name = PageName("Sheet", page),
                                         !.pdf_file = path,
                                         !.page_number = page]],
                     path, page + 1, page_count)

\* What is kept of one upload: the sheets and the storage before it
UploadCall(page_count) == [page_count |-> page_count, before |-> sheets, stored |-> storage]

AllDeletesIdle == \A w \in DeleteWorkers : deletes[w].stage = "idle"

\* SheetListCreate.create: has_file: the request carries pdf_file; valid: the
\* serializer accepts the data; page_count: the pages of the PDF (0: the page
\* count cannot be read); offset, z: offset_x and z_index of the request;
\* render_ok: render_pdf_page returns (it raises on the first sheet otherwise)
upload_sheets(has_file, valid, page_count, offset, z, render_ok) ==
    /\ last.op = "idle"
    /\ project.exists
    /\ AllDeletesIdle
    /\ Cardinality(FreePks(sheets)) >= (IF page_count = 0 THEN 1 ELSE page_count)
    /\ FileNames \ storage # {}
    /\ LET pk == Min(FreePks(sheets))
           path == Min(FileNames \ storage)
           first == [NoSheet EXCEPT !.exists = TRUE, !.name = <<"Sheet">>,
                                    !.pdf_file = path, !.page_number = 1,
                                    !.offset_x = offset, !.z_index = z]
           renamed == [first EXCEPT !.name = PageName("Sheet", 1)]
           status == IF ~has_file \/ ~valid THEN 400
                     ELSE IF ~render_ok THEN 500 ELSE 201
       IN  /\ last' = Last("upload_sheets", status, UploadCall(page_count), project)
           /\ IF status = 400
              THEN UNCHANGED <<sheets, storage>>
              ELSE /\ storage' = storage \cup {path}
                   /\ sheets' =
                        IF page_count <= 1 THEN [sheets EXCEPT ![pk] = first]
                        ELSE IF ~render_ok THEN [sheets EXCEPT ![pk] = renamed]
                        ELSE CreatePages([sheets EXCEPT ![pk] = renamed], path, 2, page_count)
    /\ UNCHANGED <<project, rows, links, geo, parse, threads, trip, parent_group, deletes, naming>>

\* A point of the split_sheet request: nothing or {} ("none"), an object with
\* x and y ("dict"), or a value without .get ("str")
NoPoint == [t |-> "none", x |-> None, y |-> None]
StrPoint == [t |-> "str", x |-> None, y |-> None]
Point(x, y) == [t |-> "dict", x |-> x, y |-> y]

\* lines 453-459: the exceptions of the four conversions in their order
PointExcs(p) ==
    IF p.t # "dict" THEN <<"AttributeError">>
    ELSE <<ParseFiniteFloat(p.x).exc, ParseFiniteFloat(p.y).exc>>
RECURSIVE FirstRaised(_)
FirstRaised(excs) ==
    IF excs = <<>> THEN ""
    ELSE IF Head(excs) # "" THEN Head(excs) ELSE FirstRaised(Tail(excs))

\* line 461 and lines 476, 484: the cut with its side
Cut(p1, p2, flipped) ==
    [p1 |-> [x |-> ParseFiniteFloat(p1.x).v, y |-> ParseFiniteFloat(p1.y).v],
     p2 |-> [x |-> ParseFiniteFloat(p2.x).v, y |-> ParseFiniteFloat(p2.y).v],
     flipped |-> flipped]

\* The new sheet left on the layer of the original
NewSplitSheetSameLayer(original, cut) ==
    [NoSheet EXCEPT !.exists = TRUE,
                    !.name = original.name \o <<"-split">>,
                    !.pdf_file = original.pdf_file,
                    !.page_number = original.page_number,
                    !.offset_x = original.offset_x,
                    !.offset_y = original.offset_y,
                    !.rotation = original.rotation,
                    !.z_index = original.z_index,
                    !.cuts_json = <<cut>>]

\* lines 466-476: the new sheet, a copy of the original one layer higher
NewSplitSheet(original, cut) ==
    [NoSheet EXCEPT !.exists = TRUE,
                    !.name = original.name \o <<"-split">>,
                    !.pdf_file = original.pdf_file,
                    !.page_number = original.page_number,
                    !.offset_x = original.offset_x,
                    !.offset_y = original.offset_y,
                    !.rotation = original.rotation,
                    !.z_index = original.z_index + 1,
                    !.cuts_json = <<cut>>]

SplitCall(pk, p1, p2) == [pk |-> pk, p1 |-> p1, p2 |-> p2, before |-> sheets]

\* split_sheet: 400 without both points or when a coordinate is refused, 500
\* when a conversion raises another exception or when the block inside
\* transaction.atomic() raises (the new sheet is rolled back)
split_sheet(pk, p1, p2, render_ok) ==
    /\ last.op = "idle"
    /\ AllDeletesIdle
    /\ sheets[pk].exists
    /\ FreePks(sheets) # {}
    /\ LET raised == FirstRaised(PointExcs(p1) \o PointExcs(p2))
           status == IF p1.t = "none" \/ p2.t = "none" THEN 400
                     ELSE IF raised \in {"ValueError", "AttributeError"} THEN 400
                     ELSE IF raised # "" THEN 500
                     ELSE IF ~render_ok THEN 500
                     ELSE 200
           new == Min(FreePks(sheets))
       IN  /\ last' = Last("split_sheet", status, SplitCall(pk, p1, p2), project)
           /\ sheets' =
                IF status = 200
                THEN [sheets EXCEPT
                        ![new] = NewSplitSheet(sheets[pk], Cut(p1, p2, TRUE)),
                        ![pk].cuts_json = Append(sheets[pk].cuts_json, Cut(p1, p2, FALSE))]
                ELSE sheets
    /\ UNCHANGED <<project, rows, links, geo, parse, threads, trip, parent_group,
                   storage, deletes, naming>>

\* The PDF file removed whatever the count says
RemovePdfAlways(path, other_pdf_users, stored) == stored \ {path}

\* models.py 110-111: the PDF file is removed when no other sheet was counted
RemovePdf(path, other_pdf_users, stored) ==
    IF path # 0 /\ other_pdf_users = 0 THEN stored \ {path} ELSE stored

\* Sheet.delete, lines 99-105: the sheet was fetched; the other sheets on its
\* PDF file are counted
delete_count(w, pk) ==
    /\ last.op = "idle"
    /\ deletes[w].stage = "idle"
    /\ sheets[pk].exists
    /\ deletes' = [deletes EXCEPT ![w] =
                     [stage |-> "counted", pk |-> pk, pdf_path |-> sheets[pk].pdf_file,
                      other_pdf_users |->
                          IF sheets[pk].pdf_file = 0 THEN 0
                          ELSE Cardinality(SheetsWith(sheets, sheets[pk].pdf_file) \ {pk})]]
    /\ UNCHANGED <<project, rows, links, last, geo, parse, threads, trip, parent_group,
                   sheets, storage, naming>>

\* Sheet.delete, lines 107-114: the row is deleted, then the file
delete_finish(w) ==
    /\ deletes[w].stage = "counted"
    /\ sheets' = [sheets EXCEPT ![deletes[w].pk] = NoSheet]
    /\ storage' = RemovePdf(deletes[w].pdf_path, deletes[w].other_pdf_users, storage)
    /\ deletes' = [deletes EXCEPT ![w] = NoDelete]
    /\ UNCHANGED <<project, rows, links, last, geo, parse, threads, trip, parent_group, naming>>

SplitPoints == {Point(Num(1), Num(2)), NoPoint, StrPoint,
                Point(Huge, Num(2)), Point(Num(1), Str("abc"))}

InitSheets ==
    /\ project = DefaultProject
    /\ assets = [a \in AssetPks |-> NoAsset]
    /\ batches = [b \in BatchPks |-> NoBatch]
    /\ groups = [g \in GroupPks |-> NoGroup]
    /\ logs = <<>>
    /\ assetTypes = {}
    /\ last = Idle
    /\ geo = NoGeo
    /\ parse = NoParse
    /\ threads = NoThreads
    /\ links = [l \in LinkPks |-> NoLink]
    /\ trip = NoTrip
    /\ naming = NoNaming
    /\ parent_group = NoJoinable
    /\ sheets = NoSheets
    /\ storage = NoStorage
    /\ deletes = NoDeletes

NextSheets ==
    \/ \E has_file, valid, render_ok \in BOOLEAN, page_count \in 0..2 :
          upload_sheets(has_file, valid, page_count, Int2F(10), 1, render_ok)
    \/ \E pk \in SheetPks, p1 \in SplitPoints, p2 \in {Point(Num(3), Num(4)), NoPoint},
          render_ok \in BOOLEAN :
          /\ Len(sheets[pk].cuts_json) < MaxCuts
          /\ sheets[pk].z_index < MaxLayer
          /\ split_sheet(pk, p1, p2, render_ok)
    \/ \E w \in DeleteWorkers, pk \in SheetPks : delete_count(w, pk)
    \/ \E w \in DeleteWorkers : delete_finish(w)
    \/ respond

SpecSheets == InitSheets /\ [][NextSheets]_vars

\* C25: the PDF file of every sheet that exists is present in storage, after
\* any uploads, splits and deletions, two deletions of sheets on one PDF file
\* running at the same time included.
C25_PdfPresent ==
    \A s \in SheetPks :
        (sheets[s].exists /\ sheets[s].pdf_file # 0) => sheets[s].pdf_file \in storage

\* Two deletions of sheets on one PDF file ran at the same time: the one
\* still running counted another sheet on its file, the other deletion has
\* removed that sheet since, and the file is still there
C25_Witness ==
    \E w \in DeleteWorkers :
        /\ deletes[w].stage = "counted"
        /\ deletes[w].other_pdf_users = 1
        /\ sheets[deletes[w].pk].exists
        /\ SheetsWith(sheets, deletes[w].pdf_path) = {deletes[w].pk}
        /\ deletes[w].pdf_path \in storage

-----------------------------------------------------------------------------
(* split_sheet, checked under SpecSheets *)

SplitAnswered == last.op = "split_sheet"

\* The sheets a request created
NewSheets == {s \in SheetPks : sheets[s].exists /\ ~last.req.before[s].exists}

\* The coordinates the request gave, as the numbers they stand for
RequestCut(flipped) ==
    [p1 |-> [x |-> PyFloat(last.req.p1.x).v, y |-> PyFloat(last.req.p1.y).v],
     p2 |-> [x |-> PyFloat(last.req.p2.x).v, y |-> PyFloat(last.req.p2.y).v],
     flipped |-> flipped]

\* C26: a successful split_sheet creates exactly one sheet, on the PDF file,
\* the page, the offsets and the rotation of the original (and in its
\* project, the one project of the model), one layer higher, whose cut list
\* holds the new cut alone with flipped = true; the cut list of the original
\* becomes its previous cuts in their order followed by the same cut with
\* flipped = false.  A split that fails creates no sheet and leaves the cut
\* list of the original as it was.
C26_Split ==
    SplitAnswered =>
        LET before == last.req.before
            o == before[last.req.pk]
        IN  IF last.status = 200
            THEN /\ Cardinality(NewSheets) = 1
                 /\ \A n \in NewSheets :
                      /\ sheets[n].pdf_file = o.pdf_file
                      /\ sheets[n].page_number = o.page_number
                      /\ sheets[n].offset_x = o.offset_x
                      /\ sheets[n].offset_y = o.offset_y
                      /\ sheets[n].rotation = o.rotation
                      /\ sheets[n].z_index = o.z_index + 1
                      /\ sheets[n].cuts_json = <<RequestCut(TRUE)>>
                 /\ sheets[last.req.pk].cuts_json = o.cuts_json \o <<RequestCut(FALSE)>>
            ELSE /\ NewSheets = {}
                 /\ sheets[last.req.pk].cuts_json = o.cuts_json

\* A sheet placed at an offset that held a cut already has been split
C26_Witness ==
    /\ SplitAnswered
    /\ last.status = 200
    /\ Len(last.req.before[last.req.pk].cuts_json) = 1
    /\ last.req.before[last.req.pk].offset_x = Int2F(10)
    /\ Len(sheets[last.req.pk].cuts_json) = 2

-----------------------------------------------------------------------------
(* import_assets_from_csv: asset ids and counts, checked under SpecCsv *)

CsvReturned == Imported /\ last.req.raised = ""

\* The batch and the layer group the call created
NewBatches == {b \in BatchPks : batches[b].exists /\ ~last.req.before.batches[b].exists}
NewGroups == {g \in GroupPks : groups[g].exists /\ ~last.req.before.groups[g].exists}

\* The asset_id a data row gives, and whether the row is accepted: an id, two
\* numbers and an asset type (of the row or of the call)
RowId(c, row) == Strip(RowGetId(c.file, row, MergedMapping(c.column_mapping).asset_id))
RowAccepted(c, row) ==
    LET m == MergedMapping(c.column_mapping)
    IN  /\ RowId(c, row) # <<>>
        /\ PyFloat(Str(RowGet(c.file, row, m.x))).ok
        /\ PyFloat(Str(RowGet(c.file, row, m.y))).ok
        /\ c.fixed_asset_type # "" \/ RowGet(c.file, row, m.asset_type) # ""
AcceptedRows(c) == {i \in 1..Len(c.file.rows) : RowAccepted(c, c.file.rows[i])}

\* C27: no two assets of the project have the same asset_id; a row whose
\* asset_id exists updates that asset and moves it to the new batch and layer
\* group instead of creating another; on return the asset_count of the new
\* batch is created + updated, the number of rows accepted without error.
C27_UniqueIdsAndCounts ==
    /\ \A j, k \in Existing(assets) : assets[j].asset_id = assets[k].asset_id => j = k
    /\ CsvReturned =>
          LET c == last.req
          IN  /\ Cardinality(NewBatches) = 1 /\ Cardinality(NewGroups) = 1
              /\ \A b \in NewBatches :
                    /\ batches[b].asset_count = c.results.created + c.results.updated
                    /\ batches[b].asset_count = Cardinality(AcceptedRows(c))
              /\ c.results.created =
                    Cardinality(Existing(assets) \ Existing(c.before.assets))
              /\ \A i \in AcceptedRows(c) :
                    \E k \in Existing(assets) :
                        /\ assets[k].asset_id = RowId(c, c.file.rows[i])
                        /\ assets[k].import_batch \in NewBatches
                        /\ assets[k].layer_group \in NewGroups
                        /\ HasAssetId(c.before.assets, assets[k].asset_id)
                              => /\ c.before.assets[k].exists
                                 /\ c.before.assets[k].asset_id = assets[k].asset_id

\* A call has updated an asset of an earlier batch and created another: the
\* asset has moved to the new batch and the count is 2
C27_Witness ==
    /\ CsvReturned
    /\ last.req.results.created = 1 /\ last.req.results.updated = 1
    /\ \E k \in Existing(assets) :
          /\ last.req.before.assets[k].exists
          /\ last.req.before.assets[k].import_batch # 0
          /\ last.req.before.assets[k].import_batch # assets[k].import_batch
          /\ assets[k].import_batch \in NewBatches

-----------------------------------------------------------------------------
(* The name import_project gives the project it creates (views.py 626-641). *)
(* The loop runs step by step; no other request is served meanwhile.        *)

\* The name with the ending after the first counter left out
SuffixedFromTwo(base_name, counter) ==
    ProjectName(base_name.base, Append(base_name.endings, counter + 1))

\* line 630: f"{base_name} ({counter})"
Suffixed(base_name, counter) ==
    ProjectName(base_name.base, Append(base_name.endings, counter))

\* ProjectListCreate: a project is created under the name the request gives;
\* the name need not be free
create_named(name) ==
    /\ naming.pc = "idle"
    /\ Cardinality(naming.existing) < MaxProjects
    /\ naming' = [naming EXCEPT !.existing = @ \cup {name}]
    /\ UNCHANGED <<project, rows, links, last, geo, parse, threads, trip, parent_group,
                   sheets, storage, deletes>>

\* lines 626-628: base_name, name and counter are set
name_start(base_name) ==
    /\ naming.pc = "idle"
    /\ Cardinality(naming.existing) < MaxProjects
    /\ naming' = [naming EXCEPT !.pc = "loop", !.before = naming.existing,
                                !.base_name = base_name, !.name = base_name,
                                !.counter = 1]
    /\ UNCHANGED <<project, rows, links, last, geo, parse, threads, trip, parent_group,
                   sheets, storage, deletes>>

\* lines 629-631: one turn of the loop while a project has the name
name_loop ==
    /\ naming.pc = "loop"
    /\ naming.name \in naming.existing
    /\ naming' = [naming EXCEPT !.name = Suffixed(naming.base_name, naming.counter),
                                !.counter = @ + 1]
    /\ UNCHANGED <<project, rows, links, last, geo, parse, threads, trip, parent_group,
                   sheets, storage, deletes>>

\* lines 636-637: the loop has ended, Project.objects.create(name=name)
name_create ==
    /\ naming.pc = "loop"
    /\ naming.name \notin naming.existing
    /\ naming' = [naming EXCEPT !.pc = "done", !.existing = @ \cup {naming.name}]
    /\ UNCHANGED <<project, rows, links, last, geo, parse, threads, trip, parent_group,
                   sheets, storage, deletes>>

\* The import has answered
name_return ==
    /\ naming.pc = "done"
    /\ naming' = [NoNaming EXCEPT !.existing = naming.existing]
    /\ UNCHANGED <<project, rows, links, last, geo, parse, threads, trip, parent_group,
                   sheets, storage, deletes>>

Plan == ProjectName("Plan", <<>>)
RequestNames == {Plan, Suffixed(Plan, 1), Suffixed(Plan, 2), Suffixed(Suffixed(Plan, 1), 1)}

NextNames ==
    \/ \E name \in RequestNames : create_named(name)
    \/ \E base_name \in {Plan, Suffixed(Plan, 1), Suffixed(Plan, 2)} : name_start(base_name)
    \/ name_loop
    \/ name_create
    \/ name_return

\* The request that imports keeps running: the loop and the creation are
\* taken when they can be
SpecNames ==
    Init /\ [][NextNames]_vars /\ WF_vars(name_loop) /\ WF_vars(name_create)

NameGiven == naming.pc = "done"

\* '<name> (k)'
WithEnding(n, k) == [base |-> n.base, endings |-> n.endings \o <<k>>]

\* The name given is free, and it is the first free one of base_name,
\* base_name (1), base_name (2), ...
FirstFree ==
    /\ naming.name \notin naming.before
    /\ \/ naming.name = naming.base_name
       \/ /\ naming.base_name \in naming.before
          /\ \E k \in 1..(Cardinality(naming.before) + 1) :
                /\ naming.name = WithEnding(naming.base_name, k)
                /\ \A j \in 1..(k - 1) : WithEnding(naming.base_name, j) \in naming.before

\* C28: import_project gives the project it creates a name that no existing
\* project has: the exported name if it is free, otherwise '<name> (k)' for
\* the smallest k >= 1 that is free; the search for the name terminates.
C28_FreeName ==
    /\ [](NameGiven => FirstFree)
    /\ (naming.pc = "loop") ~> NameGiven

\* "Plan" and "Plan (1)" exist, "Plan" is imported and becomes "Plan (2)"
C28_Witness ==
    /\ NameGiven
    /\ naming.base_name = Plan
    /\ {Plan, WithEnding(Plan, 1)} \subseteq naming.before
    /\ naming.name = WithEnding(Plan, 2)

-----------------------------------------------------------------------------
(* import_project is all-or-nothing, checked under SpecDb.  The sheets and  *)
(* the measurement sets of a file are created in the same block and are not *)
(* drawn by the files of the model.                                         *)

ImportFailed == last.op = "import_project" /\ last.status # 200

\* C29: when creating any part of the imported project fails, no project,
\* asset, link, layer group, import batch or asset type created by the import
\* remains: the rows are those before the import.
C29_AllOrNothing ==
    ImportFailed =>
        /\ project = last.req.before.project
        /\ assets = last.req.before.assets
        /\ links = last.req.before.links
        /\ groups = last.req.before.groups
        /\ batches = last.req.before.batches
        /\ assetTypes = last.req.before.assetTypes

\* A file with two assets of one asset_id was imported: the project and the
\* first asset had been written when the second raised, and none remains
C29_Witness ==
    /\ ImportFailed
    /\ \A f \in DOMAIN last.req.file.project : FileFieldOk(f, last.req.file.project[f])
    /\ ~FileAssetsDistinct(last.req.file)
    /\ ~project.exists
    /\ Existing(assets) = {}

====
